---- MODULE Spec2Model ----
(***************************************************************************)
(* A model of the real-time audio pipeline of the voice assistant:         *)
(*   - wakeword-detector/src/audio_buffer.rs  (AudioBuffer, a ring buffer) *)
(*   - wakeword-detector/src/vad.rs           (VoiceActivityDetector)      *)
(*   - wakeword-detector/src/detector.rs      (WakeWordDetector)           *)
(*   - stt-processor/src/streaming.rs         (StreamingSTT)               *)
(*                                                                         *)
(* The module holds several specifications over one set of variables:      *)
(*   BufSpec   one caller using an AudioBuffer (write/read/peek/clear/...) *)
(*   ConcSpec  one writer thread and one reader thread on an AudioBuffer   *)
(*   VadSpec   a VoiceActivityDetector fed frame after frame               *)
(*   DetSpec   a WakeWordDetector with its worker, control and monitor     *)
(*             tasks (DetFairSpec adds the scheduler's fairness)           *)
(*   SttSpec   a StreamingSTT with the pump of process_stream, a producer, *)
(*             a consumer and a control task (SttFairSpec adds fairness)   *)
(* A specification leaves the variables of the other components unchanged. *)
(***************************************************************************)
EXTENDS Integers, Sequences, FiniteSets, TLC

VARIABLES
    rb,          \* AudioBuffer: the samples held by the ring, oldest first
    lastOp,      \* BufSpec: the last write/read/clear call, arguments and result
    lastQuery,   \* BufSpec: the last peek/len/free_space call made since lastOp
    tick,        \* BufSpec/ConcSpec: number of samples captured (written) so far
    readOut,     \* BufSpec/ConcSpec: concatenation of the results of read()
    lost,        \* BufSpec/ConcSpec: samples discarded by overflow or clear()
    prodLock,    \* ConcSpec: holder of the Mutex around the producer half
    consLock,    \* ConcSpec: holder of the Mutex around the consumer half
    wpc,         \* ConcSpec: where the writer thread is inside write()
    wloc,        \* ConcSpec: the writer's locals (samples, available_space, to_drop)
    rpc,         \* ConcSpec: where the reader thread is inside its call
    rloc,        \* ConcSpec: the reader's locals (op, count, available, out)
    vadCfg,      \* VadConfig: frame_size, speech/silence_frames_required
    vad,         \* VoiceActivityDetector: state and the two frame counters
    vadLast,     \* VadSpec: the last process_frame call (state before, class, result)
    spRun,       \* VadSpec: consecutive speech frames fed since the state was Silence
    siRun,       \* VadSpec: consecutive silence frames fed since the state was Speech
    detCfg,      \* DetectorConfig: enable_vad_prefilter
    det,         \* DetectorState: is_running, frames_processed, wake_words_detected
    stateLock,   \* the tokio RwLock around DetectorState: writer and readers
    events,      \* the unbounded channel event_tx -> event_rx of WakeWordEvents
    dpc,         \* DetSpec: where each task is inside its call
    dcall,       \* DetSpec: the operation each task is in
    frame,       \* DetSpec: the frame process_audio peeked and is working on
    triggers,    \* DetSpec: frames for which mock_porcupine_process returned Some
    heard,       \* DetSpec: process_audio has been given a non-zero sample
    dlast,       \* DetSpec: what the frame loop did with the last frame it peeked
    resetFrom,   \* DetSpec: the last reset() ran on a state with data in it
    dflow,       \* DetSpec: samples accepted and not yet taken off the ring, since reset()
    sttCfg,      \* StreamingConfig
    stt,         \* StreamingState: audio_buffer, last_transcription, counters, is_active
    ppc,         \* SttSpec: where the pump task of process_stream is
    ploc,        \* SttSpec: the pump's locals (the window taken, the event built)
    inQ,         \* the input channel audio_rx: lengths of the vectors queued
    inClosed,    \* the input channel has been closed by the producer
    outQ,        \* the output channel of StreamingEvents (tx -> rx)
    outClosed,   \* the pump task has ended and dropped tx
    rxDropped,   \* the consumer has dropped rx
    received,    \* SttSpec: the events the consumer has taken from rx, in order
    sttHist,     \* SttSpec: samples accepted, vectors fed, windows taken, ...
    preFmt,      \* AudioPreprocessor: input_format
    preIn,       \* PreSpec: the samples handed to the last process() call
    preOut,      \* PreSpec: what that call returned
    cvPc,        \* CvSpec: how far the i16 -> f32 -> i16 conversion has got
    cvIn,        \* CvSpec: the 16-bit sample handed to i16_to_f32
    cvF32,       \* CvSpec: the f32 i16_to_f32 returned
    cvOut,       \* CvSpec: the 16-bit sample f32_to_i16 returned
    rxLock,      \* the tokio RwLock around event_rx: the task holding its write guard
    epc,         \* EvSpec: where each consumer task is inside its call
    ecall,       \* EvSpec: the operation each consumer task is in
    eret         \* EvSpec: what each consumer task's last call returned

bufVars == <<rb, lastOp, lastQuery, tick, readOut, lost>>

concVars == <<prodLock, consLock, wpc, wloc, rpc, rloc>>

vadVars == <<vadCfg, vad, vadLast, spRun, siRun>>

detVars == <<detCfg, det, stateLock, events, dpc, dcall, frame, triggers, heard, dlast,
             resetFrom, dflow>>

sttVars == <<sttCfg, stt, ppc, ploc, inQ, inClosed, outQ, outClosed, rxDropped,
             received, sttHist>>

preVars == <<preFmt, preIn, preOut>>

cvVars == <<cvPc, cvIn, cvF32, cvOut>>

evVars == <<rxLock, epc, ecall, eret>>

vars == <<bufVars, concVars, vadVars, detVars, sttVars, preVars, cvVars, evVars>>

\* what the actions of one specification leave alone
notBuf == <<concVars, vadVars, detVars, sttVars, preVars, cvVars, evVars>>

notConc == <<vadVars, detVars, sttVars, preVars, cvVars, evVars>>

notVad == <<bufVars, concVars, detVars, sttVars, preVars, cvVars, evVars>>

notDet == <<lastOp, lastQuery, tick, readOut, lost, concVars, vadLast, spRun, siRun,
            sttVars, preVars, cvVars, evVars>>

notStt == <<bufVars, concVars, vadVars, detVars, preVars, cvVars, evVars>>

notPre == <<bufVars, concVars, vadVars, detVars, sttVars, cvVars, evVars>>

notCv == <<bufVars, concVars, vadVars, detVars, sttVars, preVars, evVars>>

\* EvSpec works on the event channel and leaves the rest of the detector alone
notEv == <<bufVars, concVars, vadVars, detCfg, det, stateLock, dpc, dcall, frame,
           triggers, heard, dlast, resetFrom, dflow, sttVars, preVars,
           cvVars>>

----------------------------------------------------------------------------
(* Bounds of the model.                                                     *)

\* capacity handed to AudioBuffer::with_capacity
Capacity == 4
\* total number of samples a BufSpec/ConcSpec run captures
MaxTicks == 7

\* longest slice handed to write(): two more than the capacity
MaxWrite == Capacity + 2

Min(a, b) == IF a <= b THEN a ELSE b

\* the samples captured after `t`, `n` of them: t+1 .. t+n
Fresh(t, n) == [i \in 1..n |-> t + i]

----------------------------------------------------------------------------
(* ringbuf::HeapRb behind the producer and consumer handles.  The ring is   *)
(* modelled by its contents; each operator is one call on a handle, with    *)
(* the behaviour the crate documents: skip removes the oldest items,        *)
(* push_slice appends behind the newest item as many items as fit and       *)
(* returns that count, iter runs from the oldest item to the newest.        *)
(* The unit tests test_buffer_overflow and test_ring_buffer_wrapping of     *)
(* audio_buffer.rs assert something else of write and peek (150 returned    *)
(* by a ring of 100, the newest sample first): they state what the code is  *)
(* meant to do, not what these calls do (C2, C27, C33).                     *)

\* Observer::occupied_len
OccupiedLen(b) == Len(b)

\* Observer::vacant_len
VacantLen(b) == Capacity - Len(b)

\* Consumer::skip(count): removes min(count, occupied) oldest items
Skip(b, count) == SubSeq(b, Min(count, Len(b)) + 1, Len(b))

\* push_slice without the check of the vacant space
PushCount_All(b, samples) == Len(samples)

\* Producer::push_slice(samples): number of items appended
PushCount(b, samples) == Min(Len(samples), VacantLen(b))

\* Producer::push_slice(samples): appends the leading items that fit
PushSlice(b, samples) == b \o SubSeq(samples, 1, PushCount(b, samples))

\* iter() walking the ring from its newest item
IterTake_Newest(b, n) == SubSeq(b, Len(b) - Min(n, Len(b)) + 1, Len(b))

\* Consumer::iter().take(n)
IterTake(b, n) == SubSeq(b, 1, Min(n, Len(b)))

\* pop_slice taking the newest items instead of the oldest
PopSlice_Newest(b, n) == SubSeq(b, Len(b) - Min(n, Len(b)) + 1, Len(b))

\* Consumer::pop_slice(&mut result), result of length n: the items removed
PopSlice(b, n) == SubSeq(b, 1, Min(n, Len(b)))

\* pop_slice that copies the items out but leaves them in the ring
PopRest_Keep(b, n) == b

\* Consumer::pop_slice: what stays in the ring
PopRest(b, n) == SubSeq(b, Min(n, Len(b)) + 1, Len(b))

----------------------------------------------------------------------------
(* AudioBuffer, one call at a time (audio_buffer.rs).                       *)

\* a write that always gives up the oldest sample
WriteToDrop_Oldest(b, samples) == Min(1, OccupiedLen(b))

\* write() that never makes room
WriteToDrop_None(b, samples) == 0

\* AudioBuffer::write: the samples dropped to make room
WriteToDrop(b, samples) ==
    LET available_space == VacantLen(b)
        to_write == Len(samples)
    IN  IF to_write > available_space THEN to_write - available_space ELSE 0

\* AudioBuffer::write: the ring afterwards
WriteBuf(b, samples) == PushSlice(Skip(b, WriteToDrop(b, samples)), samples)

\* AudioBuffer::write: the value returned (`written`)
WriteRet(b, samples) == PushCount(Skip(b, WriteToDrop(b, samples)), samples)

\* AudioBuffer::peek(count)
Peek(b, count) ==
    LET available == OccupiedLen(b)
        to_read == Min(count, available)
    IN  IterTake(b, to_read)

\* read() without the underflow check
ReadOk_Lenient(b, count) == TRUE

\* AudioBuffer::read(count): Ok(..) or Err(Underflow)
ReadOk(b, count) == ~(count > OccupiedLen(b))

ReadOut(b, count) == IF ReadOk(b, count) THEN PopSlice(b, count) ELSE <<>>

ReadBuf(b, count) == IF ReadOk(b, count) THEN PopRest(b, count) ELSE b

\* AudioBuffer::clear
ClearBuf(b) == Skip(b, OccupiedLen(b))

\* AudioBuffer::len / free_space / capacity
BufLen(b) == OccupiedLen(b)

FreeSpace(b) == VacantLen(b)

BufCapacity == Capacity

----------------------------------------------------------------------------
(* BufSpec: one caller, whole calls.                                        *)

OpRec(op, s, count, before, out, num, ok) ==
    [op |-> op, s |-> s, count |-> count, before |-> before,
     out |-> out, num |-> num, ok |-> ok]

NoOp == OpRec("none", <<>>, 0, <<>>, <<>>, 0, TRUE)

\* AudioBuffer::with_capacity: an empty ring
BufInit ==
    /\ rb = <<>>
    /\ lastOp = NoOp
    /\ lastQuery = NoOp
    /\ tick = 0
    /\ readOut = <<>>
    /\ lost = 0

\* both Mutexes free, no call in progress
NoWLoc == [samples |-> <<>>, available_space |-> 0, to_drop |-> 0]

NoRLoc == [op |-> "none", count |-> 0, available |-> 0, out |-> <<>>, ok |-> TRUE]

ConcInit ==
    /\ prodLock = "free"
    /\ consLock = "free"
    /\ wpc = "idle"
    /\ wloc = NoWLoc
    /\ rpc = "idle"
    /\ rloc = NoRLoc

\* a call that changes the ring
Log(rec) ==
    /\ lastOp' = rec
    /\ lastQuery' = NoOp

\* a call that only observes it
LogQuery(rec) ==
    /\ lastQuery' = rec
    /\ UNCHANGED lastOp

BWrite(n) ==
    /\ UNCHANGED notBuf
    /\ tick + n <= MaxTicks
    /\ LET samples == Fresh(tick, n)
       IN  /\ rb' = WriteBuf(rb, samples)
           /\ Log(OpRec("write", samples, n, rb, <<>>, WriteRet(rb, samples), TRUE))
           /\ tick' = tick + n
           /\ lost' = lost + (Len(rb) + n - Len(WriteBuf(rb, samples)))
    /\ UNCHANGED readOut

BRead(count) ==
    /\ UNCHANGED notBuf
    /\ rb' = ReadBuf(rb, count)
    /\ Log(OpRec("read", <<>>, count, rb, ReadOut(rb, count),
                 OccupiedLen(rb), ReadOk(rb, count)))
    /\ readOut' = readOut \o ReadOut(rb, count)
    /\ UNCHANGED <<tick, lost>>

BPeek(count) ==
    /\ UNCHANGED notBuf
    /\ LogQuery(OpRec("peek", <<>>, count, rb, Peek(rb, count), 0, TRUE))
    /\ UNCHANGED <<rb, tick, readOut, lost>>

BClear ==
    /\ UNCHANGED notBuf
    /\ rb' = ClearBuf(rb)
    /\ Log(OpRec("clear", <<>>, 0, rb, <<>>, 0, TRUE))
    /\ lost' = lost + Len(rb)
    /\ UNCHANGED <<tick, readOut>>

BLen ==
    /\ UNCHANGED notBuf
    /\ LogQuery(OpRec("len", <<>>, 0, rb, <<>>, BufLen(rb), TRUE))
    /\ UNCHANGED <<rb, tick, readOut, lost>>

BFreeSpace ==
    /\ UNCHANGED notBuf
    /\ LogQuery(OpRec("free_space", <<>>, 0, rb, <<>>, FreeSpace(rb), TRUE))
    /\ UNCHANGED <<rb, tick, readOut, lost>>

BufNext ==
    \/ \E n \in 0..MaxWrite : BWrite(n)
    \/ \E count \in 0..(Capacity + 1) : BRead(count)
    \/ \E count \in 0..(Capacity + 1) : BPeek(count)
    \/ BClear
    \/ BLen
    \/ BFreeSpace


----------------------------------------------------------------------------
(* ConcSpec: one writer thread in write() and one reader thread in          *)
(* read()/peek()/len()/free_space() on the same AudioBuffer.  Each step is  *)
(* one Mutex acquisition or one call on a ring handle.                      *)

\* the Mutex a reader call takes: free_space() locks the producer half,
\* peek(), read() and len() the consumer half
ReaderMutex(op) == IF op = "free_space" THEN "producer" ELSE "consumer"

\* write(): called with the next n captured samples
W_Call(n) ==
    /\ UNCHANGED notConc
    /\ wpc = "idle"
    /\ tick + n <= MaxTicks
    /\ wloc' = [samples |-> Fresh(tick, n), available_space |-> 0, to_drop |-> 0]
    /\ tick' = tick + n
    /\ wpc' = "lock_producer"
    /\ UNCHANGED <<rb, lastOp, lastQuery, readOut, lost, prodLock, consLock, rpc, rloc>>

\* write(): self.producer.lock()
W_LockProducer ==
    /\ UNCHANGED notConc
    /\ wpc = "lock_producer"
    /\ prodLock = "free"
    /\ prodLock' = "writer"
    /\ wpc' = "vacant"
    /\ UNCHANGED <<bufVars, consLock, wloc, rpc, rloc>>

\* write(): available_space = producer.vacant_len(); to_write > available_space ?
W_Vacant ==
    /\ UNCHANGED notConc
    /\ wpc = "vacant"
    /\ LET available_space == VacantLen(rb)
           to_write == Len(wloc.samples)
       IN  IF to_write > available_space
           THEN /\ wloc' = [wloc EXCEPT !.available_space = available_space,
                                        !.to_drop = to_write - available_space]
                /\ wpc' = "lock_consumer"
           ELSE /\ wloc' = [wloc EXCEPT !.available_space = available_space]
                /\ wpc' = "push"
    /\ UNCHANGED <<bufVars, prodLock, consLock, rpc, rloc>>

\* write(): self.consumer.lock(), with the producer Mutex held
W_LockConsumer ==
    /\ UNCHANGED notConc
    /\ wpc = "lock_consumer"
    /\ consLock = "free"
    /\ consLock' = "writer"
    /\ wpc' = "skip"
    /\ UNCHANGED <<bufVars, prodLock, wloc, rpc, rloc>>

\* write(): consumer.skip(to_drop); drop(consumer)
W_Skip ==
    /\ UNCHANGED notConc
    /\ wpc = "skip"
    /\ rb' = Skip(rb, wloc.to_drop)
    /\ lost' = lost + (Len(rb) - Len(Skip(rb, wloc.to_drop)))
    /\ consLock' = "free"
    /\ wpc' = "push"
    /\ UNCHANGED <<lastOp, lastQuery, tick, readOut, prodLock, wloc, rpc, rloc>>

\* write(): producer.push_slice(samples); return (the producer guard drops)
W_Push ==
    /\ UNCHANGED notConc
    /\ wpc = "push"
    /\ rb' = PushSlice(rb, wloc.samples)
    /\ lost' = lost + (Len(wloc.samples) - PushCount(rb, wloc.samples))
    /\ prodLock' = "free"
    /\ wpc' = "idle"
    /\ wloc' = NoWLoc
    /\ UNCHANGED <<lastOp, lastQuery, tick, readOut, consLock, rpc, rloc>>

\* the reader calls read(count), peek(count), len() or free_space()
R_Call(op, count) ==
    /\ UNCHANGED notConc
    /\ rpc = "idle"
    /\ rloc' = [op |-> op, count |-> count, available |-> 0, out |-> <<>>, ok |-> TRUE]
    /\ rpc' = "lock"
    /\ UNCHANGED <<bufVars, prodLock, consLock, wpc, wloc>>

\* self.consumer.lock() (self.producer.lock() in free_space)
R_Lock ==
    /\ UNCHANGED notConc
    /\ rpc = "lock"
    /\ IF ReaderMutex(rloc.op) = "producer"
       THEN /\ prodLock = "free"
            /\ prodLock' = "reader"
            /\ UNCHANGED consLock
       ELSE /\ consLock = "free"
            /\ consLock' = "reader"
            /\ UNCHANGED prodLock
    /\ rpc' = "observe"
    /\ UNCHANGED <<bufVars, wpc, wloc, rloc>>

\* available = consumer.occupied_len() (producer.vacant_len() in free_space);
\* len() and free_space() return it, read() returns Err(Underflow) if short
R_Observe ==
    /\ UNCHANGED notConc
    /\ rpc = "observe"
    /\ LET available == IF rloc.op = "free_space" THEN VacantLen(rb)
                        ELSE OccupiedLen(rb)
       IN  IF rloc.op \in {"len", "free_space"}
              \/ (rloc.op = "read" /\ rloc.count > available)
           THEN /\ rloc' = [rloc EXCEPT !.available = available,
                                        !.ok = (rloc.op # "read")]
                /\ rpc' = "idle"
                /\ prodLock' = IF prodLock = "reader" THEN "free" ELSE prodLock
                /\ consLock' = IF consLock = "reader" THEN "free" ELSE consLock
           ELSE /\ rloc' = [rloc EXCEPT !.available = available]
                /\ rpc' = "take"
                /\ UNCHANGED <<prodLock, consLock>>
    /\ UNCHANGED <<bufVars, wpc, wloc>>

\* read(): consumer.pop_slice(&mut result);  peek(): consumer.iter().take(to_read)
R_Take ==
    /\ UNCHANGED notConc
    /\ rpc = "take"
    /\ IF rloc.op = "read"
       THEN /\ rloc' = [rloc EXCEPT !.out = PopSlice(rb, rloc.count)]
            /\ rb' = PopRest(rb, rloc.count)
            /\ readOut' = readOut \o PopSlice(rb, rloc.count)
       ELSE /\ rloc' = [rloc EXCEPT !.out = IterTake(rb, Min(rloc.count, rloc.available))]
            /\ UNCHANGED <<rb, readOut>>
    /\ consLock' = "free"
    /\ rpc' = "idle"
    /\ UNCHANGED <<lastOp, lastQuery, tick, lost, prodLock, wpc, wloc>>

ConcNext ==
    \/ \E n \in 0..MaxWrite : W_Call(n)
    \/ W_LockProducer
    \/ W_Vacant
    \/ W_LockConsumer
    \/ W_Skip
    \/ W_Push
    \/ \E op \in {"read", "peek"} : \E count \in 0..(Capacity + 1) : R_Call(op, count)
    \/ \E op \in {"len", "free_space"} : R_Call(op, 0)
    \/ R_Lock
    \/ R_Observe
    \/ R_Take


----------------------------------------------------------------------------
(* VoiceActivityDetector (vad.rs).                                          *)

\* frame_size of the VadConfig (480 by default; small in the model)
FrameSize == 2
\* largest speech_frames_required / silence_frames_required tried
MaxRequired == 3

\* VadConfig::default: energy_threshold 0.02 and zcr_threshold 0.15, in 1/1000
EnergyThresholdPermille == 20

ZcrThresholdPermille == 150

\* i16::MAX
I16Max == 32767

\* the sample values frames are built from: silence, and a loud signal
SampleValues == {0, 16000, -16000}

\* all sample slices of length lo..hi
Slices(lo, hi) == UNION {[1..n -> SampleValues] : n \in lo..hi}

\* bits of the mantissa of an f32, the hidden bit included
MantissaBits == 24

\* round to nearest, ties to even: one more when the remainder is above
\* half, or is half and the mantissa odd
RoundUp(n, twice_rem, whole) ==
    IF twice_rem > whole \/ (twice_rem = whole /\ n % 2 = 1) THEN 1 ELSE 0

\* `let v = e;` and what follows it: F of the value of e.  (A bound variable
\* of a set constructor holds a value, where a parameter or a LET name
\* stands for an expression that is worked out again at each use.)
With(e, F(_)) == CHOOSE r \in {F(v) : v \in {e}} : TRUE

With2(e1, e2, F(_, _)) == CHOOSE r \in {F(v1, v2) : v1 \in {e1}, v2 \in {e2}} : TRUE

\* Naturals beyond 32 bits, as the sequence of their 12-bit limbs, the
\* least significant first
LimbBase == 2 ^ 12

RECURSIVE BigOf(_)
BigOf(n) == IF n = 0 THEN <<>> ELSE <<n % LimbBase>> \o BigOf(n \div LimbBase)

\* limb i of a
Limb(a, i) == IF i > Len(a) THEN 0 ELSE a[i]

\* the limbs of a * m + carry from limb i of a on
RECURSIVE TimesFrom(_, _, _, _)
TimesFrom(a, m, i, carry) ==
    IF i > Len(a)
    THEN BigOf(carry)
    ELSE With(a[i] * m + carry,
              LAMBDA p : <<p % LimbBase>> \o TimesFrom(a, m, i + 1, p \div LimbBase))

\* a * m + carry, for a factor m below 2^18
BigTimes(a, m, carry) == With(a, LAMBDA x : TimesFrom(x, m, 1, carry))

\* the limbs of a + b + carry from limb i on
RECURSIVE AddFrom(_, _, _, _)
AddFrom(a, b, i, carry) ==
    IF i > Len(a) /\ i > Len(b)
    THEN BigOf(carry)
    ELSE With(Limb(a, i) + Limb(b, i) + carry,
              LAMBDA t : <<t % LimbBase>> \o AddFrom(a, b, i + 1, t \div LimbBase))

BigAdd(a, b, carry) == With2(a, b, LAMBDA x, y : AddFrom(x, y, 1, carry))

RECURSIVE BigMul(_, _)
BigMul(a, b) ==
    IF b = <<>>
    THEN <<>>
    ELSE With2(BigTimes(a, Head(b), 0), BigMul(a, Tail(b)),
               LAMBDA low, high : AddFrom(low, <<0>> \o high, 1, 0))

\* a * 2^bits
BigShl(a, bits) ==
    [i \in 1..(bits \div 12) |-> 0] \o BigTimes(a, 2 ^ (bits % 12), 0)

\* the number of bits of n
RECURSIVE SmallBits(_)
SmallBits(n) == IF n = 0 THEN 0 ELSE 1 + SmallBits(n \div 2)

\* the number of bits of a
BigBits(a) ==
    LET top == {i \in 1..Len(a) : a[i] > 0}
    IN  IF top = {}
        THEN 0
        ELSE With(CHOOSE i \in top : \A j \in top : j <= i,
                  LAMBDA i : 12 * (i - 1) + SmallBits(a[i]))

\* bit i of a, bit 0 the least significant
BigBit(a, i) == (Limb(a, i \div 12 + 1) \div (2 ^ (i % 12))) % 2

\* floor(a / 2^bits)
BigShr(a, bits) ==
    LET k == bits \div 12
        b == bits % 12
        n == Len(a) - k
    IN  IF n <= 0
        THEN <<>>
        ELSE [i \in 1..n |->
                (a[k + i] \div (2 ^ b))
                  + (IF i < n THEN (a[k + i + 1] % (2 ^ b)) * (2 ^ (12 - b)) ELSE 0)]

\* a is a multiple of 2^bits
BigLowZero(a, bits) ==
    /\ \A i \in 1..(bits \div 12) : Limb(a, i) = 0
    /\ Limb(a, bits \div 12 + 1) % (2 ^ (bits % 12)) = 0

\* a < b: the most significant limb in which they differ decides
BigLess(a, b) ==
    LET differ == {i \in 1..(Len(a) + Len(b)) : Limb(a, i) # Limb(b, i)}
    IN  /\ differ # {}
        /\ With(CHOOSE i \in differ : \A j \in differ : j <= i,
                LAMBDA i : Limb(a, i) < Limb(b, i))

\* the limbs of a - b - borrow from limb i of a on, for a >= b + borrow
RECURSIVE SubFrom(_, _, _, _)
SubFrom(a, b, i, borrow) ==
    IF i > Len(a)
    THEN <<>>
    ELSE With(a[i] - Limb(b, i) - borrow,
              LAMBDA t : <<IF t < 0 THEN t + LimbBase ELSE t>>
                            \o SubFrom(a, b, i + 1, IF t < 0 THEN 1 ELSE 0))

BigSub(a, b, borrow) == With2(a, b, LAMBDA x, y : SubFrom(x, y, 1, borrow))

\* one limb of a quotient: the largest digit with digit * d <= r, from a
\* digit that is not below it, and what is left of r
RECURSIVE DigitFrom(_, _, _)
DigitFrom(r, d, digit) ==
    With(BigTimes(d, digit, 0),
         LAMBDA product : IF BigLess(r, product)
                          THEN DigitFrom(r, d, digit - 1)
                          ELSE [r |-> BigSub(r, product, 0), digit |-> digit])

\* the two leading limbs of r by the leading limb of d: not below the
\* digit, and at most 2 above it when the leading bit of d is set
DigitGuess(r, d) ==
    Min((Limb(r, Len(d) + 1) * LimbBase + Limb(r, Len(d))) \div d[Len(d)],
        LimbBase - 1)

\* floor(n / d) by long division from limb i of n down, r the remainder and
\* q the quotient so far; `exact` tells that nothing is left over
RECURSIVE BigDivFrom(_, _, _, _, _)
BigDivFrom(n, d, i, r, q) ==
    IF i = 0
    THEN [q |-> q, exact |-> BigBits(r) = 0]
    ELSE With(<<n[i]>> \o r,
              LAMBDA r1 : With(DigitFrom(r1, d, DigitGuess(r1, d)),
                  LAMBDA step : BigDivFrom(n, d, i - 1,
                                           SubSeq(step.r, 1, Min(Len(step.r), Len(d))),
                                           <<step.digit>> \o q)))

\* floor(n / d) for d # 0, both shifted so that the leading bit of the
\* leading limb of d is set
BigDiv(n, d) ==
    With((12 * Len(d) - BigBits(d)) % 12,
         LAMBDA shift :
             With2(BigShl(n, shift),
                   SubSeq(BigShl(d, shift), 1, (BigBits(d) + shift) \div 12),
                   LAMBDA n1, d1 : BigDivFrom(n1, d1, Len(n1), <<>>, <<>>)))

\* `count` more bits of a square root, one from each pair of bits of n from
\* `pair` down: st.root the root so far and st.rem what is left of n under
\* it; a bit is set when 4 * root + 1 goes into the remainder
RECURSIVE SqrtBits(_, _, _, _)
SqrtBits(n, pair, count, st) ==
    IF count = 0 \/ pair < 0
    THEN st
    ELSE With2(BigTimes(st.rem, 4, 2 * BigBit(n, 2 * pair + 1) + BigBit(n, 2 * pair)),
               BigTimes(st.root, 4, 1),
               LAMBDA rem, trial :
                   IF BigLess(rem, trial)
                   THEN With([rem |-> rem, root |-> BigTimes(st.root, 2, 0)],
                             LAMBDA next : SqrtBits(n, pair - 1, count - 1, next))
                   ELSE With([rem |-> BigSub(rem, trial, 0), root |-> BigTimes(st.root, 2, 1)],
                             LAMBDA next : SqrtBits(n, pair - 1, count - 1, next)))

\* the pairs of bits of n, a limb of the root at a time
RECURSIVE BigSqrtFrom(_, _, _)
BigSqrtFrom(n, pair, st) ==
    IF pair < 0
    THEN st
    ELSE With(SqrtBits(n, pair, 12, st), LAMBDA next : BigSqrtFrom(n, pair - 12, next))

\* floor(sqrt(n)) as `root`, with n - root^2 as `rem`
BigSqrt(n) ==
    With(n, LAMBDA n1 : BigSqrtFrom(n1, BigBits(n1) \div 2, [rem |-> <<>>, root |-> <<>>]))

\* Binary floating point, IEEE 754 without signs: the float [m, e] stands
\* for m * 2^e, with a mantissa m of exactly p bits (53 for an f64, 24 for an
\* f32), or no bits for zero.  No value of the model comes near the ends of
\* the exponent range.
FloatZero == [m |-> <<>>, e |-> 0]

\* bits of the mantissa of an f64, the hidden bit included
F64Bits == 53

\* n * 2^e, where n has `bits` bits, rounded to p bits
RoundBits(p, n, bits, e, above) ==
    LET d  == bits - p
        up == /\ BigBit(n, d - 1) = 1
              /\ (above \/ ~BigLowZero(n, d - 1) \/ BigBit(n, d) = 1)
    IN  IF bits = 0
        THEN FloatZero
        ELSE IF d <= 0
        THEN [m |-> BigShl(SubSeq(n, 1, (bits + 11) \div 12), 0 - d), e |-> e + d]
        ELSE With(BigAdd(BigShr(n, d), <<>>, IF up THEN 1 ELSE 0),
                  LAMBDA r : IF BigBits(r) > p
                             THEN [m |-> SubSeq(BigShr(r, 1), 1, (p + 11) \div 12),
                                   e |-> e + d + 1]
                             ELSE [m |-> SubSeq(r, 1, (p + 11) \div 12), e |-> e + d])

\* the float of p bits nearest to the exact value, ties to the even
\* mantissa; the exact value is n * 2^e, or with `above` lies between that
\* and (n + 1) * 2^e (n then has more than p bits)
Float(p, n, e, above) ==
    With(n, LAMBDA n1 : RoundBits(p, n1, BigBits(n1), e, above))

\* n as f64, n as f32
FloatOfNat(p, n) == Float(p, BigOf(n), 0, FALSE)

\* x * y
FloatMul(p, x, y) ==
    With2(x, y, LAMBDA a, b : Float(p, BigMul(a.m, b.m), a.e + b.e, FALSE))

\* x + y
FloatAdd(p, x, y) ==
    With2(x, y, LAMBDA a, b :
        LET e == Min(a.e, b.e)
        IN  IF a.m = <<>> THEN b
            ELSE IF b.m = <<>> THEN a
            ELSE Float(p, BigAdd(BigShl(a.m, a.e - e), BigShl(b.m, b.e - e), 0), e, FALSE))

\* x / y for y # 0: p + 2 bits of the quotient or more, and whether
\* something is left over
FloatDiv(p, x, y) ==
    With2(x, y, LAMBDA a, b :
        LET la == BigBits(a.m)
            lb == BigBits(b.m)
            k  == p + 2 + (IF lb > la THEN lb - la ELSE 0)
        IN  IF a.m = <<>>
            THEN FloatZero
            ELSE With(BigDiv(BigShl(a.m, k), b.m),
                      LAMBDA d : Float(p, d.q, a.e - b.e - k, ~d.exact)))

\* x.sqrt(): p + 2 bits of the root, of a mantissa shifted to an even exponent
FloatSqrt(p, x) ==
    With(x, LAMBDA a :
        LET k == IF (a.e - (p + 3)) % 2 = 0 THEN p + 3 ELSE p + 4
        IN  IF a.m = <<>>
            THEN FloatZero
            ELSE With(BigSqrt(BigShl(a.m, k)),
                      LAMBDA s : Float(p, s.root, (a.e - k) \div 2, BigBits(s.rem) > 0)))

\* x > y
FloatGreater(x, y) ==
    With2(x, y, LAMBDA a, b :
        LET e == Min(a.e, b.e)
        IN  IF a.m = <<>> THEN FALSE
            ELSE IF b.m = <<>> THEN TRUE
            ELSE BigLess(BigShl(b.m, b.e - e), BigShl(a.m, a.e - e)))

\* a decimal literal permille / 1000 (0.02, 0.15, 0.4) stored in a float of
\* p bits: the nearest one
DecimalLiteral(p, permille) ==
    IF permille = 0
    THEN FloatZero
    ELSE FloatDiv(p, FloatOfNat(p, permille), FloatOfNat(p, 1000))

\* `s as f64 / i16::MAX as f64`, squared (the sign is lost in the square)
NormalizedSquare(s) ==
    With(FloatDiv(F64Bits, FloatOfNat(F64Bits, IF s < 0 THEN 0 - s ELSE s),
                  FloatOfNat(F64Bits, I16Max)),
         LAMBDA normalized : FloatMul(F64Bits, normalized, normalized))

\* the squares of the samples after the first `done`, added to acc one by
\* one and each sum rounded, as Iterator::sum does
RECURSIVE SumFrom(_, _, _)
SumFrom(samples, done, acc) ==
    IF done = Len(samples)
    THEN acc
    ELSE With(FloatAdd(F64Bits, acc, NormalizedSquare(samples[done + 1])),
              LAMBDA sum : SumFrom(samples, done + 1, sum))

SumSquares(samples) == SumFrom(samples, 0, FloatZero)

\* (sum_squares / samples.len() as f64).sqrt(), of a slice that is not empty
Rms(samples) ==
    FloatSqrt(F64Bits, FloatDiv(F64Bits, SumSquares(samples),
                                FloatOfNat(F64Bits, Len(samples))))

\* `rms > 0.4`, both f64.  The mean of an empty slice is NaN, which
\* compares false
RmsGreater(samples, permille) ==
    /\ samples # <<>>
    /\ FloatGreater(Rms(samples), DecimalLiteral(F64Bits, permille))

\* calculate_energy: `rms as f32`
CalculateEnergy(samples) ==
    With(Rms(samples), LAMBDA rms : Float(MantissaBits, rms.m, rms.e, FALSE))

\* process_frame: energy > self.config.energy_threshold, both f32
EnergyAbove(samples, permille) ==
    /\ samples # <<>>
    /\ FloatGreater(CalculateEnergy(samples), DecimalLiteral(MantissaBits, permille))

\* the number of sign changes of adjacent pairs
Crossings(samples) ==
    Cardinality({i \in 1..(Len(samples) - 1) :
        \/ samples[i] >= 0 /\ samples[i + 1] < 0
        \/ samples[i] < 0 /\ samples[i + 1] >= 0})

\* calculate_zero_crossing_rate: crossings as f32 / (samples.len() - 1) as f32,
\* and 0.0 for fewer than two samples
ZeroCrossingRate(samples) ==
    IF Len(samples) < 2
    THEN FloatZero
    ELSE FloatDiv(MantissaBits, FloatOfNat(MantissaBits, Crossings(samples)),
                  FloatOfNat(MantissaBits, Len(samples) - 1))

\* process_frame: energy > energy_threshold && zcr > zcr_threshold, with
\* the thresholds of VadConfig::default
EnergyAndZcrAbove(samples) ==
    /\ EnergyAbove(samples, EnergyThresholdPermille)
    /\ FloatGreater(ZeroCrossingRate(samples),
                    DecimalLiteral(MantissaBits, ZcrThresholdPermille))

\* mock_porcupine_process: `rms > 0.4`, in 1/1000
MockRmsPermille == 400

\* The slices of the model's sample values that reach process_frame and
\* mock_porcupine_process.  What the two find on each of them is worked out
\* once: the pairs of a slice and the finding
KnownFrames == Slices(0, FrameSize + 1)

SpeechFrames == {<<fr, EnergyAndZcrAbove(fr)>> : fr \in KnownFrames}

HighEnergyFrames == {<<fr, RmsGreater(fr, MockRmsPermille)>> : fr \in KnownFrames}

\* process_frame: is_speech_frame
IsSpeechFrame(samples) ==
    IF samples \in KnownFrames
    THEN <<samples, TRUE>> \in SpeechFrames
    ELSE EnergyAndZcrAbove(samples)

\* mock_porcupine_process: rms > permille / 1000
RmsAbove(samples, permille) ==
    IF permille = MockRmsPermille /\ samples \in KnownFrames
    THEN <<samples, TRUE>> \in HighEnergyFrames
    ELSE RmsGreater(samples, permille)

\* update_state that confirms speech one frame early
UpdateState_Early(v, cfg, is_speech_frame) ==
    IF v.state = "MaybeSpeech" /\ is_speech_frame
    THEN [v EXCEPT !.speech_frame_count = v.speech_frame_count + 1,
                   !.state = IF v.speech_frame_count + 2
                                    >= cfg.speech_frames_required
                             THEN "Speech" ELSE "MaybeSpeech"]
    ELSE IF v.state = "Silence" /\ is_speech_frame
    THEN [state |-> "MaybeSpeech", speech_frame_count |-> 1,
          silence_frame_count |-> 0]
    ELSE IF v.state = "MaybeSpeech"
    THEN [v EXCEPT !.state = "Silence", !.speech_frame_count = 0]
    ELSE v

\* update_state that leaves the silence count alone when speech resumes
UpdateState_KeepSilence(v, cfg, is_speech_frame) ==
    IF v.state = "MaybeSilence" /\ is_speech_frame
    THEN [v EXCEPT !.state = "Speech"]
    ELSE IF v.state = "MaybeSilence"
    THEN [v EXCEPT !.silence_frame_count = v.silence_frame_count + 1,
                   !.state = IF v.silence_frame_count + 1
                                    >= cfg.silence_frames_required
                             THEN "Silence" ELSE "MaybeSilence"]
    ELSE IF v.state = "Speech" /\ ~is_speech_frame
    THEN [state |-> "MaybeSilence", speech_frame_count |-> 0,
          silence_frame_count |-> 1]
    ELSE IF v.state = "Silence" /\ is_speech_frame
    THEN [state |-> "MaybeSpeech", speech_frame_count |-> 1,
          silence_frame_count |-> 0]
    ELSE IF v.state = "MaybeSpeech" /\ is_speech_frame
    THEN [v EXCEPT !.speech_frame_count = v.speech_frame_count + 1,
                   !.state = IF v.speech_frame_count + 1
                                    >= cfg.speech_frames_required
                             THEN "Speech" ELSE "MaybeSpeech"]
    ELSE IF v.state = "MaybeSpeech"
    THEN [v EXCEPT !.state = "Silence", !.speech_frame_count = 0]
    ELSE v

\* update_state with `>` where the code has `>=` when confirming speech
UpdateState_Strict(v, cfg, is_speech_frame) ==
    CASE v.state = "Silence" ->
            IF is_speech_frame
            THEN [state |-> "MaybeSpeech", speech_frame_count |-> 1,
                  silence_frame_count |-> 0]
            ELSE v
      [] v.state = "MaybeSpeech" ->
            IF is_speech_frame
            THEN [v EXCEPT !.speech_frame_count = v.speech_frame_count + 1,
                           !.state = IF v.speech_frame_count + 1
                                            > cfg.speech_frames_required
                                     THEN "Speech" ELSE "MaybeSpeech"]
            ELSE [v EXCEPT !.state = "Silence", !.speech_frame_count = 0]
      [] v.state = "Speech" ->
            IF ~is_speech_frame
            THEN [state |-> "MaybeSilence", speech_frame_count |-> 0,
                  silence_frame_count |-> 1]
            ELSE [v EXCEPT !.silence_frame_count = 0]
      [] v.state = "MaybeSilence" ->
            IF ~is_speech_frame
            THEN [v EXCEPT !.silence_frame_count = v.silence_frame_count + 1,
                           !.state = IF v.silence_frame_count + 1
                                            >= cfg.silence_frames_required
                                     THEN "Silence" ELSE "MaybeSilence"]
            ELSE [v EXCEPT !.state = "Speech", !.silence_frame_count = 0]

\* VoiceActivityDetector::update_state
UpdateState(v, cfg, is_speech_frame) ==
    CASE v.state = "Silence" ->
            IF is_speech_frame
            THEN [state |-> "MaybeSpeech", speech_frame_count |-> 1,
                  silence_frame_count |-> 0]
            ELSE v
      [] v.state = "MaybeSpeech" ->
            IF is_speech_frame
            THEN [v EXCEPT !.speech_frame_count = v.speech_frame_count + 1,
                           !.state = IF v.speech_frame_count + 1
                                            >= cfg.speech_frames_required
                                     THEN "Speech" ELSE "MaybeSpeech"]
            ELSE [v EXCEPT !.state = "Silence", !.speech_frame_count = 0]
      [] v.state = "Speech" ->
            IF ~is_speech_frame
            THEN [state |-> "MaybeSilence", speech_frame_count |-> 0,
                  silence_frame_count |-> 1]
            ELSE [v EXCEPT !.silence_frame_count = 0]
      [] v.state = "MaybeSilence" ->
            IF ~is_speech_frame
            THEN [v EXCEPT !.silence_frame_count = v.silence_frame_count + 1,
                           !.state = IF v.silence_frame_count + 1
                                            >= cfg.silence_frames_required
                                     THEN "Silence" ELSE "MaybeSilence"]
            ELSE [v EXCEPT !.state = "Speech", !.silence_frame_count = 0]

\* is_speech_active that also counts the unconfirmed MaybeSpeech as active
IsSpeechActive_Maybe(v) == v.state \in {"Speech", "MaybeSilence", "MaybeSpeech"}

\* VoiceActivityDetector::is_speech_active
IsSpeechActive(v) == v.state \in {"Speech", "MaybeSilence"}

\* process_frame that also rejects a slice of exactly frame_size samples
ProcessFrameOk_Short(cfg, samples) == ~(Len(samples) <= cfg.frame_size)

\* process_frame: Err(InsufficientData) unless samples.len() >= frame_size
ProcessFrameOk(cfg, samples) == ~(Len(samples) < cfg.frame_size)

\* process_frame: the payload of Err(InsufficientData(..)), 0 on Ok
ProcessFrameErr(cfg, samples) ==
    IF ProcessFrameOk(cfg, samples) THEN 0 ELSE cfg.frame_size

\* process_frame that runs the state machine on a short slice too
ProcessFrameVad_Always(v, cfg, samples) ==
    UpdateState(v, cfg, IsSpeechFrame(samples))

\* process_frame: the detector afterwards
ProcessFrameVad(v, cfg, samples) ==
    IF ProcessFrameOk(cfg, samples)
    THEN UpdateState(v, cfg, IsSpeechFrame(samples))
    ELSE v

\* process_frame: Ok(self.is_speech_active())
ProcessFrameRet(v, cfg, samples) == IsSpeechActive(ProcessFrameVad(v, cfg, samples))

\* VoiceActivityDetector::with_config
NewVad == [state |-> "Silence", speech_frame_count |-> 0, silence_frame_count |-> 0]

\* VoiceActivityDetector::reset
ResetVad(v) ==
    [v EXCEPT !.state = "Silence", !.speech_frame_count = 0,
              !.silence_frame_count = 0]

VadCfg(speech_req, silence_req) ==
    [frame_size |-> FrameSize, speech_frames_required |-> speech_req,
     silence_frames_required |-> silence_req]

NoFrame == [called |-> FALSE, pre |-> NewVad, is_speech |-> FALSE,
            ok |-> TRUE, ret |-> FALSE, len |-> 0, err |-> 0]

\* a VAD built from a VadConfig that validate() accepts: it checks the two
\* thresholds and frame_size > 0, and nothing about the frames required
VadInit ==
    /\ vadCfg \in {VadCfg(sp, si) : sp \in 0..MaxRequired, si \in 0..MaxRequired}
    /\ vad = NewVad
    /\ vadLast = NoFrame
    /\ spRun = 0
    /\ siRun = 0

\* a VAD nobody feeds (the specifications that do not use one)
VadIdle ==
    /\ vadCfg = VadCfg(3, 10)
    /\ vad = NewVad
    /\ vadLast = NoFrame
    /\ spRun = 0
    /\ siRun = 0

\* the runs of consecutive equally classified frames, counted up to MaxRequired + 1
SpRunNext(pre, is_speech) ==
    IF ~is_speech THEN 0
    ELSE IF pre.state = "Silence" THEN 1
    ELSE IF spRun > 0 THEN Min(spRun + 1, MaxRequired + 1)
    ELSE 0

SiRunNext(pre, is_speech) ==
    IF is_speech THEN 0
    ELSE IF pre.state = "Speech" THEN 1
    ELSE IF siRun > 0 THEN Min(siRun + 1, MaxRequired + 1)
    ELSE 0

\* vad.process_frame(samples)
VProcessFrame(samples) ==
    /\ UNCHANGED notVad
    /\ vad' = ProcessFrameVad(vad, vadCfg, samples)
    /\ vadLast' = [called |-> TRUE, pre |-> vad,
                   is_speech |-> IsSpeechFrame(samples),
                   ok |-> ProcessFrameOk(vadCfg, samples),
                   ret |-> ProcessFrameRet(vad, vadCfg, samples),
                   len |-> Len(samples),
                   err |-> ProcessFrameErr(vadCfg, samples)]
    /\ IF ProcessFrameOk(vadCfg, samples)
       THEN /\ spRun' = SpRunNext(vad, IsSpeechFrame(samples))
            /\ siRun' = SiRunNext(vad, IsSpeechFrame(samples))
       ELSE UNCHANGED <<spRun, siRun>>
    /\ UNCHANGED vadCfg

\* vad.reset()
VReset ==
    /\ UNCHANGED notVad
    /\ vad' = ResetVad(vad)
    /\ vadLast' = NoFrame
    /\ spRun' = 0
    /\ siRun' = 0
    /\ UNCHANGED vadCfg

\* the slices process_frame is fed: too short, a frame, and longer
VadFrames == Slices(1, FrameSize + 1)

VadNext ==
    \/ \E samples \in VadFrames : VProcessFrame(samples)
    \/ VReset

----------------------------------------------------------------------------
(* WakeWordDetector (detector.rs).  Three tasks share one detector: the     *)
(* worker calls process_audio, the control task start/stop/reset, and the   *)
(* monitor stats.  A task waits only where the code awaits: at              *)
(* self.state.write().await and self.state.read().await.                    *)

\* frames_processed is not raised past this by new process_audio calls
MaxFrames == 3

Tasks == {"worker", "control", "monitor"}

NoCall == "none"

\* reset() that leaves frames_processed alone
ResetDet_KeepFrames(d) == [d EXCEPT !.wake_words_detected = 0]

\* reset(): the two counters of DetectorState
ResetDet(d) == [d EXCEPT !.frames_processed = 0, !.wake_words_detected = 0]

NoReset == [dirty |-> FALSE]

\* the model's own account of the samples: `oversize` tells that some call
\* since reset() carried more than capacity - frame_size + 1 samples, and
\* until then `pending` counts the samples accepted by audio_buffer.write
\* and not yet read off by the frame loop
NoFlow == [pending |-> 0, oversize |-> FALSE]

FlowIn(f, n, frame_size) ==
    IF f.oversize \/ n > Capacity - frame_size + 1
    THEN [pending |-> 0, oversize |-> TRUE]
    ELSE [f EXCEPT !.pending = @ + n]

FlowOut(f, frame_size) ==
    IF f.oversize THEN f ELSE [f EXCEPT !.pending = @ - frame_size]

\* process_audio that goes on whether the detector is running or not
ProcessAudioRuns_Always(d) == TRUE

\* process_audio: `if !state.is_running { return Ok(()) }`
ProcessAudioRuns(d) == d.is_running

\* DetectorState at WakeWordDetector::new
NewDet == [is_running |-> FALSE, frames_processed |-> 0, wake_words_detected |-> 0]

\* tokio::sync::RwLock: write() needs no holder at all, read() no writer
LockFree == [writer |-> "none", readers |-> {}]

CanWrite(l) == l.writer = "none" /\ l.readers = {}

CanRead(l) == l.writer = "none"

\* a try_read that succeeds whoever holds the lock
TryReadOk_Always(l) == TRUE

\* RwLock::try_read
TryReadOk(l) == l.writer = "none"

\* mock_porcupine_process: Some(0) on a frame with rms > 0.4 when
\* state.try_read() succeeds and frames_processed % 100 == 0, else None
MockPorcupineProcess(fr, l, d) ==
    IF /\ RmsAbove(fr, MockRmsPermille)
       /\ TryReadOk(l)
       /\ d.frames_processed % 100 = 0
    THEN "some" ELSE "none"

\* mock_porcupine_process on a frame with rms > 0.4 whose state.try_read()
\* fails: `.unwrap_or(false)`, so the answer is None
TryReadFailed(fr, l) == RmsAbove(fr, MockRmsPermille) /\ ~TryReadOk(l)

\* a frame loop that does not count the frame it has consumed
CountFrame_Never(d) == d

\* process_audio: state.frames_processed += 1
CountFrame(d) == [d EXCEPT !.frames_processed = @ + 1]

\* WakeWordEvent built in detect_wake_word (timestamp and confidence left out)
WakeWordEvent(b) == [audio_context |-> Peek(b, BufLen(b)), keyword_index |-> 0]

DetInit ==
    /\ detCfg \in {[enable_vad_prefilter |-> pf] : pf \in BOOLEAN}
    /\ det = NewDet
    /\ stateLock = LockFree
    /\ events = <<>>
    /\ dpc = [t \in Tasks |-> "idle"]
    /\ dcall = [t \in Tasks |-> NoCall]
    /\ frame = <<>>
    /\ triggers = 0
    /\ heard = FALSE
    /\ dlast = "none"
    /\ resetFrom = NoReset
    /\ dflow = NoFlow

\* a detector nobody uses (the specifications without one)
DetIdle ==
    /\ detCfg = [enable_vad_prefilter |-> TRUE]
    /\ det = NewDet
    /\ stateLock = LockFree
    /\ events = <<>>
    /\ dpc = [t \in Tasks |-> "idle"]
    /\ dcall = [t \in Tasks |-> NoCall]
    /\ frame = <<>>
    /\ triggers = 0
    /\ heard = FALSE
    /\ dlast = "none"
    /\ resetFrom = NoReset
    /\ dflow = NoFlow

\* the VAD of a detector: with_config(config.vad_config)
DetVadInit ==
    /\ vadCfg = VadCfg(2, 2)
    /\ vad = NewVad
    /\ vadLast = NoFrame
    /\ spRun = 0
    /\ siRun = 0

\* longest slice handed to process_audio
MaxChunk == Capacity

\* the slices process_audio may be called with (read where they are written
\* to the ring; no other operation takes samples)
Chunks == Slices(0, MaxChunk)

ProcessAudioInputs(op, d) ==
    IF op = "process_audio" THEN Chunks ELSE {<<>>}

\* a task calls an operation and reaches its first await
D_Call(t, op) ==
    /\ UNCHANGED notDet
    /\ dpc[t] = "idle"
    /\ op = "process_audio" => det.frames_processed < MaxFrames
    /\ dcall' = [dcall EXCEPT ![t] = op]
    /\ dpc' = [dpc EXCEPT ![t] = IF op = "stats" THEN "await_read" ELSE "await_write"]
    /\ UNCHANGED <<rb, vadCfg, vad, detCfg, det, stateLock, events, frame, triggers, heard, dlast, resetFrom, dflow>>

\* self.state.write().await is granted; the code up to the next await runs.
\*   start / stop / reset: the whole body, the guard drops at the end
\*   process_audio:        the is_running check and audio_buffer.write; the
\*                         guard `state` stays held over the frame loop
\*   detect_wake_word:     state.wake_words_detected += 1 (line 287), back
\*                         in process_audio after the call
D_WriteGranted(t) ==
    /\ UNCHANGED notDet
    /\ dpc[t] = "await_write"
    /\ CanWrite(stateLock)
    /\ LET op == dcall[t]
       IN  /\ det' = CASE op = "start" -> [det EXCEPT !.is_running = TRUE]
                       [] op = "stop" -> [det EXCEPT !.is_running = FALSE]
                       [] op = "reset" -> ResetDet(det)
                       [] op = "detect" ->
                            [det EXCEPT !.wake_words_detected = @ + 1]
                       [] OTHER -> det
           /\ \E samples \in ProcessAudioInputs(op, det) :
                 /\ rb' = CASE op = "reset" -> ClearBuf(rb)
                            [] op = "process_audio" /\ ProcessAudioRuns(det) ->
                                  WriteBuf(rb, samples)
                            [] OTHER -> rb
                 /\ heard' = (heard \/ (/\ op = "process_audio"
                                         /\ ProcessAudioRuns(det)
                                         /\ \E i \in 1..Len(samples) : samples[i] # 0))
                 /\ dflow' = CASE op = "reset" -> NoFlow
                               [] op = "process_audio" /\ ProcessAudioRuns(det) ->
                                     FlowIn(dflow, Len(samples), vadCfg.frame_size)
                               [] OTHER -> dflow
           /\ vad' = IF op = "reset" THEN ResetVad(vad) ELSE vad
           /\ resetFrom' = IF op = "reset"
                           THEN [dirty |-> /\ BufLen(rb) > 0
                                           /\ vad.state # "Silence"
                                           /\ det.frames_processed > 0]
                           ELSE resetFrom
           /\ stateLock' = IF op = "process_audio" /\ ProcessAudioRuns(det)
                           THEN [stateLock EXCEPT !.writer = t]
                           ELSE stateLock
           /\ dpc' = [dpc EXCEPT ![t] =
                        CASE op = "process_audio" /\ ProcessAudioRuns(det) -> "loop"
                          [] op = "detect" -> "consume"
                          [] OTHER -> "idle"]
           /\ dcall' = [dcall EXCEPT ![t] =
                        IF (op = "process_audio" /\ ProcessAudioRuns(det)) \/ op = "detect"
                        THEN "process_audio"
                        ELSE NoCall]
           /\ dlast' = IF op = "process_audio" /\ ~ProcessAudioRuns(det)
                       THEN "ignored" ELSE dlast
    /\ UNCHANGED <<vadCfg, detCfg, events, frame, triggers>>

\* self.state.read().await is granted; the code up to the next await runs.
\*   stats:            the snapshot; the guard drops at the end
\*   detect_wake_word: audio_context = peek(len()), event_tx.send(event),
\*                     drop(state), then self.state.write().await
D_ReadGranted(t) ==
    /\ UNCHANGED notDet
    /\ dpc[t] = "await_read"
    /\ CanRead(stateLock)
    /\ LET op == dcall[t]
       IN  /\ events' = IF op = "detect" THEN Append(events, WakeWordEvent(rb))
                        ELSE events
           /\ dpc' = [dpc EXCEPT ![t] = IF op = "detect" THEN "await_write"
                                        ELSE "idle"]
           /\ dcall' = [dcall EXCEPT ![t] = IF op = "detect" THEN dcall[t]
                                            ELSE NoCall]
    /\ UNCHANGED <<rb, vadCfg, vad, detCfg, det, stateLock, frame, triggers, heard, dlast, resetFrom, dflow>>

\* process_audio, one turn of `while state.audio_buffer.len() >= frame_size`
\* up to the classifier: peek the frame, run the VAD pre-filter, and either
\* drop the frame as silence (read, continue) or go on to detect_wake_word
D_Frame ==
    /\ UNCHANGED notDet
    /\ dpc["worker"] = "loop"
    /\ BufLen(rb) >= vadCfg.frame_size
    /\ LET fr == Peek(rb, vadCfg.frame_size)
           vad_ok == ProcessFrameOk(vadCfg, fr)
           is_speech == ProcessFrameRet(vad, vadCfg, fr)
           skipped == detCfg.enable_vad_prefilter /\ vad_ok /\ ~is_speech
       IN  /\ vad' = IF detCfg.enable_vad_prefilter
                     THEN ProcessFrameVad(vad, vadCfg, fr) ELSE vad
           /\ rb' = IF skipped THEN ReadBuf(rb, vadCfg.frame_size) ELSE rb
           /\ frame' = IF skipped THEN <<>> ELSE fr
           /\ dpc' = [dpc EXCEPT !["worker"] = IF skipped THEN "loop" ELSE "classify"]
           /\ dlast' = IF skipped THEN "skipped" ELSE "passed"
           /\ dflow' = IF skipped THEN FlowOut(dflow, vadCfg.frame_size) ELSE dflow
    /\ UNCHANGED <<vadCfg, detCfg, det, stateLock, events, dcall, triggers, heard, resetFrom>>

\* process_audio: the loop ends, Ok(()) is returned and the write guard drops
D_Return ==
    /\ UNCHANGED notDet
    /\ dpc["worker"] = "loop"
    /\ ~(BufLen(rb) >= vadCfg.frame_size)
    /\ stateLock' = [stateLock EXCEPT !.writer = "none"]
    /\ dpc' = [dpc EXCEPT !["worker"] = "idle"]
    /\ dcall' = [dcall EXCEPT !["worker"] = NoCall]
    /\ UNCHANGED <<rb, vadCfg, vad, detCfg, det, events, frame, triggers, heard, dlast, resetFrom, dflow>>

\* detect_wake_word: mock_porcupine_process runs on the frame.  On
\* Some(keyword_index) the code goes on to self.state.read().await; on None
\* it returns Ok(()), its only result, and process_audio goes on to consume
\* the frame
D_Classify ==
    /\ UNCHANGED notDet
    /\ dpc["worker"] = "classify"
    /\ LET detection_result == MockPorcupineProcess(frame, stateLock, det)
       IN  /\ dpc' = [dpc EXCEPT !["worker"] =
                        IF detection_result = "some" THEN "await_read" ELSE "consume"]
           /\ dcall' = [dcall EXCEPT !["worker"] =
                        IF detection_result = "some" THEN "detect" ELSE dcall["worker"]]
           /\ triggers' = IF detection_result = "some" THEN triggers + 1 ELSE triggers
           /\ dlast' = IF TryReadFailed(frame, stateLock) THEN "unreadable" ELSE dlast
    /\ UNCHANGED <<rb, vadCfg, vad, detCfg, det, stateLock, events, frame, heard,
                   resetFrom, dflow>>

\* process_audio: state.audio_buffer.read(frame_size).ok(); frames_processed += 1
D_Consume ==
    /\ UNCHANGED notDet
    /\ dpc["worker"] = "consume"
    /\ rb' = ReadBuf(rb, vadCfg.frame_size)
    /\ det' = CountFrame(det)
    /\ frame' = <<>>
    /\ dpc' = [dpc EXCEPT !["worker"] = "loop"]
    /\ dflow' = FlowOut(dflow, vadCfg.frame_size)
    /\ UNCHANGED <<vadCfg, vad, detCfg, stateLock, events, dcall, triggers, heard, dlast, resetFrom>>

DetNext ==
    \/ D_Call("worker", "process_audio")
    \/ \E op \in {"start", "stop", "reset"} : D_Call("control", op)
    \/ D_Call("monitor", "stats")
    \/ \E t \in Tasks : D_WriteGranted(t)
    \/ \E t \in Tasks : D_ReadGranted(t)
    \/ D_Frame
    \/ D_Return
    \/ D_Classify
    \/ D_Consume

\* what the worker does next inside process_audio (one of these at most is
\* enabled, by where the worker is)
WorkerStep ==
    \/ D_WriteGranted("worker")
    \/ D_ReadGranted("worker")
    \/ D_Frame
    \/ D_Return
    \/ D_Classify
    \/ D_Consume

\* the RwLock is handed to the control or the monitor task
GrantOthers ==
    \E t \in {"control", "monitor"} : D_WriteGranted(t) \/ D_ReadGranted(t)

\* the runtime runs a task that can go on, and the RwLock is granted to a
\* task waiting for it once it can be
DetFairness ==
    /\ WF_vars(WorkerStep)
    /\ WF_vars(GrantOthers)

----------------------------------------------------------------------------
(* StreamingSTT (stt-processor/src/streaming.rs).  process_stream spawns a  *)
(* pump task that takes sample vectors from the input channel, calls        *)
(* process_chunk on each, and sends the events to the bounded output        *)
(* channel; a control task calls start, stop and clear_buffer.  Every       *)
(* section of code that holds the RwLock around StreamingState runs without *)
(* an await, so each such section is one step and the lock is always free   *)
(* between steps.                                                           *)
(*                                                                          *)
(* The samples a session accepts are numbered 1, 2, ... in the order they   *)
(* are appended to audio_buffer.  The VecDeque only ever grows at the back  *)
(* and shrinks at the front, so it holds a run of consecutive numbers and   *)
(* is kept as [first, len].  The ASR callable is opaque: the text it        *)
(* returns for a window is named after the window's first sample.           *)

\* input vectors the producer hands to the input channel
MaxPushes == 2

\* calls of start()
MaxStarts == 2

\* `* 16` in chunk_samples / overlap_samples (16 kHz, per millisecond)
SamplesPerMs == 16

\* `* 16000` in max_samples and `/ 16000` in the timestamps
SamplesPerSec == 16000

\* `* 1000` in the timestamps
MsPerSec == 1000

\* the input channel handed to process_stream holds this many vectors
InputChannelSize == 1

StreamingConfig(c, o, b, p, q) ==
    [chunk_duration_ms |-> c, overlap_ms |-> o, max_buffer_duration_secs |-> b,
     enable_partial_results |-> p, max_queue_size |-> q]

\* the StreamingConfig values used: a window without overlap and an output
\* queue of two, a window with overlap, an overlap as long as the window,
\* and a buffer cap of 0 s
StreamingConfigs ==
    {StreamingConfig(1, 0, 1, p, 2) : p \in BOOLEAN}
        \cup {StreamingConfig(2, 1, 1, p, 1) : p \in BOOLEAN}
        \cup {StreamingConfig(1, 1, 1, TRUE, 1), StreamingConfig(1, 0, 0, TRUE, 1)}

ChunkSamples(cfg) == cfg.chunk_duration_ms * SamplesPerMs

OverlapSamples(cfg) == cfg.overlap_ms * SamplesPerMs

MaxSamples(cfg) == cfg.max_buffer_duration_secs * SamplesPerSec

\* usize::saturating_sub
SaturatingSub(a, b) == IF a > b THEN a - b ELSE 0

\* lengths of the sample vectors fed: empty, one window (or half of one),
\* several windows, and more than the buffer cap
PushLens == {0, SamplesPerMs, 3 * SamplesPerMs, SamplesPerSec + SamplesPerMs}

\* AudioPreprocessor::process on 16 kHz mono input: no channel mixing, no
\* resampling, normalisation keeps the length
ProcessedLen(n) == n

\* StreamingState::new
NewStreamingState ==
    [audio_buffer |-> [first |-> 1, len |-> 0], last_transcription |-> 0,
     total_samples_processed |-> 0, chunks_processed |-> 0, is_active |-> FALSE]

\* audio_buffer.extend(processed.iter())
Extend(q, n) == [q EXCEPT !.len = @ + n]

\* audio_buffer.drain(0..n)
Drain(q, n) == [first |-> q.first + n, len |-> q.len - n]

\* a buffer cap that never drains
CapDrop_Never(len, max_samples) == 0

\* to_drop of the buffer size limit
CapDrop(len, max_samples) == IF len > max_samples THEN len - max_samples ELSE 0

\* the queue after extend and the buffer size limit (lines 195-204)
Accumulate(q, n, cfg) ==
    LET q1 == Extend(q, n)
    IN  Drain(q1, CapDrop(q1.len, MaxSamples(cfg)))

\* `if state.audio_buffer.len() >= chunk_samples`
HasWindow(q, cfg) == q.len >= ChunkSamples(cfg)

\* process_chunk that stops only on an inactive session
EarlyReturn_ActiveOnly(s, n) == ~s.is_active

\* process_chunk: the two early returns Ok(None)
EarlyReturn(s, n) == ~s.is_active \/ n = 0

\* process_chunk that reports every result as Final
EventOf_Final(cfg, text, confidence, w) ==
    [type |-> "Final", text |-> text, confidence |-> confidence,
     start_ms |-> 0,
     end_ms |-> (ChunkSamples(cfg) * MsPerSec) \div SamplesPerSec,
     window |-> w]

\* the event process_chunk builds from a transcription result
\* (window: the first sample of the window the event reports)
EventOf(cfg, text, confidence, w) ==
    IF cfg.enable_partial_results
    THEN [type |-> "Partial", text |-> text, confidence |-> confidence,
          timestamp_ms |-> (ChunkSamples(cfg) * MsPerSec) \div SamplesPerSec,
          window |-> w]
    ELSE [type |-> "Final", text |-> text, confidence |-> confidence,
          start_ms |-> 0,
          end_ms |-> (ChunkSamples(cfg) * MsPerSec) \div SamplesPerSec,
          window |-> w]

\* StreamingEvent::Error { message: e.to_string() } for a failed window
ErrorEvent(w) == [type |-> "Error", window |-> w]

\* a pump that ends the stream without a word
StreamEnd_Silent == <<>>

\* what the pump sends when its loop is over
StreamEnd == <<[type |-> "EndOfSpeech"]>>

\* a channel that always has room
CanSend_Always(q, cfg) == TRUE

\* mpsc::channel(self.config.max_queue_size): send completes only while the
\* queue holds fewer than max_queue_size events
CanSend(q, cfg) == Len(q) < cfg.max_queue_size

\* a channel that hands over the newest event first
Send_Front(q, e) == <<e>> \o q

\* mpsc::Sender::send: the event joins the queue at the back
Send(q, e) == Append(q, e)

\* WhisperProcessor::transcribe: Err on an empty buffer, else the engine's
\* result (text, confidence below or above min_partial_confidence) or error
AsrOutcomes(cfg) ==
    IF ChunkSamples(cfg) = 0 THEN {"err"} ELSE {"low", "high", "err"}

\* TranscriptionResult, as far as process_chunk reads it; the text is named
\* after the first sample of the window transcribed
TranscriptionResult(w, confidence) == [text |-> w, confidence |-> confidence]

NoLocals == [audio |-> 0, window |-> 0, result |-> <<>>, event |-> <<>>]

NoHist == [fed |-> 0, pushes |-> 0, starts |-> 0, dropped |-> 0,
           windows |-> <<>>, asr_failed |-> FALSE, disturbed |-> FALSE,
           early |-> "no"]

SttInit ==
    /\ sttCfg \in StreamingConfigs
    /\ stt = NewStreamingState
    /\ ppc = "recv"
    /\ ploc = NoLocals
    /\ inQ = <<>>
    /\ inClosed = FALSE
    /\ outQ = <<>>
    /\ outClosed = FALSE
    /\ rxDropped = FALSE
    /\ received = <<>>
    /\ sttHist = NoHist

\* a StreamingSTT nobody uses (the specifications without one)
SttIdle ==
    /\ sttCfg = StreamingConfig(1, 0, 1, TRUE, 1)
    /\ stt = NewStreamingState
    /\ ppc = "recv"
    /\ ploc = NoLocals
    /\ inQ = <<>>
    /\ inClosed = FALSE
    /\ outQ = <<>>
    /\ outClosed = FALSE
    /\ rxDropped = FALSE
    /\ received = <<>>
    /\ sttHist = NoHist

\* start()
S_Start ==
    /\ UNCHANGED notStt
    /\ sttHist.starts < MaxStarts
    /\ stt' = [stt EXCEPT !.is_active = TRUE,
                          !.audio_buffer = Drain(@, @.len),
                          !.last_transcription = 0,
                          !.total_samples_processed = 0,
                          !.chunks_processed = 0]
    /\ sttHist' = [sttHist EXCEPT !.starts = @ + 1,
                                  !.disturbed = @ \/ sttHist.starts > 0]
    /\ UNCHANGED <<sttCfg, ppc, ploc, inQ, inClosed, outQ, outClosed, rxDropped,
                   received>>

\* stop()
S_Stop ==
    /\ UNCHANGED notStt
    /\ stt.is_active
    /\ stt' = [stt EXCEPT !.is_active = FALSE]
    /\ sttHist' = [sttHist EXCEPT !.disturbed = TRUE]
    /\ UNCHANGED <<sttCfg, ppc, ploc, inQ, inClosed, outQ, outClosed, rxDropped,
                   received>>

\* clear_buffer()
S_ClearBuffer ==
    /\ UNCHANGED notStt
    /\ stt.audio_buffer.len > 0
    /\ stt' = [stt EXCEPT !.audio_buffer = Drain(@, @.len)]
    /\ sttHist' = [sttHist EXCEPT !.disturbed = TRUE]
    /\ UNCHANGED <<sttCfg, ppc, ploc, inQ, inClosed, outQ, outClosed, rxDropped,
                   received>>

\* the producer sends a vector of n samples into the input channel; once the
\* pump task has ended the receiver is gone and the vector is lost
I_Send(n) ==
    /\ UNCHANGED notStt
    /\ ~inClosed
    /\ sttHist.pushes < MaxPushes
    /\ Len(inQ) < InputChannelSize
    /\ inQ' = IF ppc = "done" THEN inQ ELSE Append(inQ, n)
    /\ sttHist' = [sttHist EXCEPT !.pushes = @ + 1]
    /\ UNCHANGED <<sttCfg, stt, ppc, ploc, inClosed, outQ, outClosed, rxDropped,
                   received>>

\* the producer drops its sender: the input channel closes
I_Close ==
    /\ UNCHANGED notStt
    /\ ~inClosed
    /\ inClosed' = TRUE
    /\ UNCHANGED <<sttCfg, stt, ppc, ploc, inQ, outQ, outClosed, rxDropped,
                   received, sttHist>>

\* audio_rx.recv().await yields Some(audio): the vector leaves the input
\* channel, process_chunk(&audio) is called and reaches state.write().await
P_Recv ==
    /\ UNCHANGED notStt
    /\ ppc = "recv"
    /\ inQ # <<>>
    /\ inQ' = Tail(inQ)
    /\ ploc' = [ploc EXCEPT !.audio = Head(inQ)]
    /\ ppc' = "lock"
    /\ UNCHANGED <<sttCfg, stt, inClosed, outQ, outClosed, rxDropped, received,
                   sttHist>>

\* process_chunk from the moment the write guard is granted up to the point
\* where it drops it: the two early returns, extend, the buffer size limit,
\* and the extraction of one window if the queue holds one.  On Ok(None) the
\* pump is back at audio_rx.recv()
P_Push ==
    /\ UNCHANGED notStt
    /\ ppc = "lock"
    /\ LET n == ploc.audio
           q == Accumulate(stt.audio_buffer, ProcessedLen(n), sttCfg)
           dropped == stt.audio_buffer.len + ProcessedLen(n) - q.len
           to_remove == SaturatingSub(ChunkSamples(sttCfg), OverlapSamples(sttCfg))
       IN  IF EarlyReturn(stt, n)
           THEN /\ sttHist' = [sttHist EXCEPT !.early =
                                  IF ~stt.is_active THEN "inactive" ELSE "empty"]
                /\ ppc' = "recv"
                /\ ploc' = NoLocals
                /\ UNCHANGED stt
           ELSE IF HasWindow(q, sttCfg)
           THEN /\ stt' = [stt EXCEPT !.audio_buffer = Drain(q, to_remove),
                                      !.total_samples_processed = @ + ProcessedLen(n),
                                      !.chunks_processed = @ + 1]
                /\ ppc' = "transcribe"
                /\ ploc' = [NoLocals EXCEPT !.window = q.first]
                /\ sttHist' = [sttHist EXCEPT !.fed = @ + ProcessedLen(n),
                                              !.dropped = @ + dropped,
                                              !.windows = Append(@, q.first),
                                              !.early = "no"]
           ELSE /\ stt' = [stt EXCEPT !.audio_buffer = q,
                                      !.total_samples_processed = @ + ProcessedLen(n)]
                /\ sttHist' = [sttHist EXCEPT !.fed = @ + ProcessedLen(n),
                                              !.dropped = @ + dropped,
                                              !.early = "no"]
                /\ ppc' = "recv"
                /\ ploc' = NoLocals
    /\ UNCHANGED <<sttCfg, inQ, inClosed, outQ, outClosed, rxDropped, received>>

\* process_chunk from whisper.transcribe(&chunk) to the second
\* state.write().await: on Ok the event is built from the result and the
\* pump waits for the guard; on Err the `?` returns the error to the pump
P_Transcribe ==
    /\ UNCHANGED notStt
    /\ ppc = "transcribe"
    /\ \E outcome \in AsrOutcomes(sttCfg) :
         IF outcome = "err"
         THEN /\ ppc' = "send_err"
              /\ ploc' = [ploc EXCEPT !.event = <<ErrorEvent(ploc.window)>>]
              /\ sttHist' = [sttHist EXCEPT !.asr_failed = TRUE]
              /\ UNCHANGED stt
         ELSE LET result == TranscriptionResult(ploc.window, outcome)
              IN  /\ ppc' = "store"
                  /\ ploc' = [ploc EXCEPT
                                !.result = <<result>>,
                                !.event = <<EventOf(sttCfg, result.text,
                                                    result.confidence, ploc.window)>>]
                  /\ UNCHANGED <<stt, sttHist>>
    /\ UNCHANGED <<sttCfg, inQ, inClosed, outQ, outClosed, rxDropped, received>>

\* process_chunk once the second state.write().await is granted:
\* last_transcription = result.text, and Ok(Some(event)) is returned to the
\* pump, the guard dropped
P_Store ==
    /\ UNCHANGED notStt
    /\ ppc = "store"
    /\ stt' = [stt EXCEPT !.last_transcription = ploc.result[1].text]
    /\ ppc' = "send"
    /\ UNCHANGED <<sttCfg, ploc, inQ, inClosed, outQ, outClosed, rxDropped,
                   received, sttHist>>

\* tx.send(event).await in the Ok(Some(event)) arm: waits while the output
\* channel is full; fails, and the loop breaks, once the receiver is dropped
P_Send ==
    /\ UNCHANGED notStt
    /\ ppc = "send"
    /\ rxDropped \/ CanSend(outQ, sttCfg)
    /\ outQ' = IF rxDropped THEN outQ ELSE Send(outQ, ploc.event[1])
    /\ ppc' = IF rxDropped THEN "eos" ELSE "recv"
    /\ ploc' = NoLocals
    /\ UNCHANGED <<sttCfg, stt, inQ, inClosed, outClosed, rxDropped, received,
                   sttHist>>

\* the Err(e) arm: the Error event is sent (the outcome ignored), then `break`
P_SendErr ==
    /\ UNCHANGED notStt
    /\ ppc = "send_err"
    /\ rxDropped \/ CanSend(outQ, sttCfg)
    /\ outQ' = IF rxDropped THEN outQ ELSE Send(outQ, ploc.event[1])
    /\ ppc' = "eos"
    /\ ploc' = NoLocals
    /\ UNCHANGED <<sttCfg, stt, inQ, inClosed, outClosed, rxDropped, received,
                   sttHist>>

\* audio_rx.recv() yields None: the input channel is closed and empty
P_InputEnd ==
    /\ UNCHANGED notStt
    /\ ppc = "recv"
    /\ inQ = <<>>
    /\ inClosed
    /\ ppc' = "eos"
    /\ UNCHANGED <<sttCfg, stt, ploc, inQ, inClosed, outQ, outClosed, rxDropped,
                   received, sttHist>>

\* after the loop: tx.send(EndOfSpeech).await, then the task ends and tx is
\* dropped, which closes the output channel
P_EndOfSpeech ==
    /\ UNCHANGED notStt
    /\ ppc = "eos"
    /\ rxDropped \/ CanSend(outQ, sttCfg)
    /\ outQ' = IF rxDropped THEN outQ ELSE outQ \o StreamEnd
    /\ ppc' = "done"
    /\ outClosed' = TRUE
    /\ inQ' = <<>>
    /\ UNCHANGED <<sttCfg, stt, ploc, inClosed, rxDropped, received, sttHist>>

\* the consumer takes the next event from the output channel
C_Recv ==
    /\ UNCHANGED notStt
    /\ ~rxDropped
    /\ outQ # <<>>
    /\ received' = Append(received, Head(outQ))
    /\ outQ' = Tail(outQ)
    /\ UNCHANGED <<sttCfg, stt, ppc, ploc, inQ, inClosed, outClosed, rxDropped,
                   sttHist>>

\* the consumer drops the receiver: the queued events are gone with it
C_Drop ==
    /\ UNCHANGED notStt
    /\ ~rxDropped
    /\ ~outClosed
    /\ rxDropped' = TRUE
    /\ outQ' = <<>>
    /\ UNCHANGED <<sttCfg, stt, ppc, ploc, inQ, inClosed, outClosed, received,
                   sttHist>>

\* the steps of the pump task
PumpStep ==
    \/ P_Recv
    \/ P_Push
    \/ P_Transcribe
    \/ P_Store
    \/ P_Send
    \/ P_SendErr
    \/ P_InputEnd
    \/ P_EndOfSpeech

SttNext ==
    \/ S_Start
    \/ S_Stop
    \/ S_ClearBuffer
    \/ \E n \in PushLens : I_Send(n)
    \/ I_Close
    \/ P_Recv
    \/ P_Push
    \/ P_Transcribe
    \/ P_Store
    \/ P_Send
    \/ P_SendErr
    \/ P_InputEnd
    \/ P_EndOfSpeech
    \/ C_Recv
    \/ C_Drop

\* the runtime keeps running the pump task, and the consumer keeps draining
\* the output channel as long as it holds the receiver
SttFairness ==
    /\ WF_vars(PumpStep)
    /\ WF_vars(C_Recv)

----------------------------------------------------------------------------
(* The consumers of the detector's event channel: recv_event and            *)
(* try_recv_event, both of which take the write guard of the RwLock around  *)
(* event_rx (wakeword-detector/src/detector.rs).  The only event_tx.send is *)
(* the one in detect_wake_word, behind self.state.read().await; that call   *)
(* is made by process_audio alone, under its own write guard, where         *)
(* mock_porcupine_process answers None (DetSpec).  So the consumers meet an *)
(* empty queue, and the sender lives as long as the detector does.          *)

Consumers == {"waiter", "poller", "listener"}

EvOps == {"recv_event", "try_recv_event"}

NoEvent == "None"

EvInit ==
    /\ rxLock = "none"
    /\ epc = [t \in Consumers |-> "idle"]
    /\ ecall = [t \in Consumers |-> NoCall]
    /\ eret = [t \in Consumers |-> NoCall]

\* a task calls recv_event or try_recv_event and reaches event_rx.write().await
Ev_Call(t, op) ==
    /\ UNCHANGED notEv
    /\ epc[t] = "idle"
    /\ epc' = [epc EXCEPT ![t] = "lock"]
    /\ ecall' = [ecall EXCEPT ![t] = op]
    /\ UNCHANGED <<events, rxLock, eret>>

\* try_recv_event once the guard is granted: rx.try_recv().ok() and return,
\* the guard dropped with it
Ev_TryRecv(t) ==
    /\ UNCHANGED notEv
    /\ epc[t] = "lock"
    /\ ecall[t] = "try_recv_event"
    /\ rxLock = "none"
    /\ eret' = [eret EXCEPT ![t] = IF events = <<>> THEN NoEvent ELSE Head(events)]
    /\ events' = IF events = <<>> THEN events ELSE Tail(events)
    /\ epc' = [epc EXCEPT ![t] = "idle"]
    /\ UNCHANGED <<rxLock, ecall>>

\* recv_event is granted the guard and reaches rx.recv().await, which
\* completes on an event or once every sender is gone: with the queue empty
\* and event_tx alive the task stays there, the guard its own
Ev_RecvLocked(t) ==
    /\ UNCHANGED notEv
    /\ epc[t] = "lock"
    /\ ecall[t] = "recv_event"
    /\ rxLock = "none"
    /\ events = <<>>
    /\ rxLock' = t
    /\ epc' = [epc EXCEPT ![t] = "recv"]
    /\ UNCHANGED <<events, ecall, eret>>

EvNext ==
    \/ \E t \in Consumers, op \in EvOps : Ev_Call(t, op)
    \/ \E t \in Consumers : Ev_TryRecv(t)
    \/ \E t \in Consumers : Ev_RecvLocked(t)

----------------------------------------------------------------------------
(* AudioPreprocessor (stt-processor/src/audio_preprocessor.rs).             *)
(* A sample is an f32: the record [neg, m, e] of a sign and a float of      *)
(* MantissaBits bits, -m * 2^e or m * 2^e.  The inputs of the model are     *)
(* given in thousandths, as the decimal literals of a caller, and each      *)
(* operation of the source is a rounded operation on floats.                *)

\* longest slice handed to process()
MaxInputLen == 3

\* WHISPER_SAMPLE_RATE
WhisperSampleRate == 16000

\* 1.0, the amplitude above which normalize scales
FullScale == 1

\* 0.95, the peak normalize scales down to, in 1/1000
Headroom == 950

\* the amplitudes of the model, in 1/1000: -2.0, -0.97, 0.0, 0.5, 1.08, 1.5
Amplitudes == {-2000, -970, 0, 500, 1080, 1500}

\* the f32 of a decimal literal, given in 1/1000
Sample(thousandths) ==
    With(DecimalLiteral(MantissaBits,
                        IF thousandths < 0 THEN 0 - thousandths ELSE thousandths),
         LAMBDA f : [neg |-> thousandths < 0, m |-> f.m, e |-> f.e])

\* the samples of the model
SampleOf == {<<t, Sample(t)>> : t \in Amplitudes}

\* a slice of samples
Samples(literals) ==
    [i \in 1..Len(literals) |-> (CHOOSE p \in SampleOf : p[1] = literals[i])[2]]

PreInputs == UNION {[1..n -> Amplitudes] : n \in 0..MaxInputLen}

AudioFormat(sample_rate, channels, bits_per_sample) ==
    [sample_rate |-> sample_rate, channels |-> channels,
     bits_per_sample |-> bits_per_sample]

\* the input formats of the model: 16 kHz, mono or stereo, for which
\* process() does not call the resampler
PreFormats == {AudioFormat(WhisperSampleRate, c, 16) : c \in {1, 2}}

AbsVal(x) == IF x < 0 THEN 0 - x ELSE x

\* s.abs()
Magnitude(s) == [m |-> s.m, e |-> s.e]

\* samples.iter().map(|&s| s.abs()).fold(0.0f32, f32::max), from sample i on
RECURSIVE PeakFrom(_, _, _)
PeakFrom(samples, i, peak) ==
    IF i > Len(samples)
    THEN peak
    ELSE With(IF FloatGreater(Magnitude(samples[i]), peak)
              THEN Magnitude(samples[i]) ELSE peak,
              LAMBDA max : PeakFrom(samples, i + 1, max))

Peak(samples) == PeakFrom(samples, 1, FloatZero)

\* |x - y| for floats x >= y, rounded
FloatSub(p, x, y) ==
    With2(x, y, LAMBDA a, b :
        LET e == Min(a.e, b.e)
        IN  IF b.m = <<>> THEN a
            ELSE Float(p, BigSub(BigShl(a.m, a.e - e), BigShl(b.m, b.e - e), 0), e, FALSE))

\* x + y in f32: the magnitudes are added under a common sign, and the
\* smaller is taken from the larger under the sign of the larger
Plus(x, y) ==
    IF x.neg = y.neg
    THEN With(FloatAdd(MantissaBits, Magnitude(x), Magnitude(y)),
              LAMBDA f : [neg |-> x.neg, m |-> f.m, e |-> f.e])
    ELSE IF FloatGreater(Magnitude(y), Magnitude(x))
    THEN With(FloatSub(MantissaBits, Magnitude(y), Magnitude(x)),
              LAMBDA f : [neg |-> y.neg, m |-> f.m, e |-> f.e])
    ELSE With(FloatSub(MantissaBits, Magnitude(x), Magnitude(y)),
              LAMBDA f : [neg |-> x.neg /\ f.m # <<>>, m |-> f.m, e |-> f.e])

\* x / 2.0
Halved(x) == IF x.m = <<>> THEN x ELSE [x EXCEPT !.e = x.e - 1]

\* 0.95 / peak
Scale(peak) == FloatDiv(MantissaBits, DecimalLiteral(MantissaBits, Headroom), peak)

\* s * scale
ScaleSample(s, scale) ==
    With(FloatMul(MantissaBits, Magnitude(s), scale),
         LAMBDA f : [neg |-> s.neg, m |-> f.m, e |-> f.e])

\* normalize: silence and audio with peak <= 1.0 are returned as they are,
\* louder audio is scaled by 0.95 / peak
Normalize(samples) ==
    With(Peak(samples), LAMBDA peak :
        IF peak.m = <<>>
        THEN samples
        ELSE IF FloatGreater(peak, FloatOfNat(MantissaBits, FullScale))
        THEN With(Scale(peak), LAMBDA scale :
                 [i \in 1..Len(samples) |-> ScaleSample(samples[i], scale)])
        ELSE samples)

\* stereo_to_mono: chunks_exact(2) averaged, a trailing odd sample ignored
StereoToMono(stereo) ==
    [i \in 1..(Len(stereo) \div 2) |-> Halved(Plus(stereo[2 * i - 1], stereo[2 * i]))]

\* process: Err(EmptyBuffer) on an empty slice, else downmix, (no resampling
\* at 16 kHz,) normalize
Process(fmt, samples) ==
    IF samples = <<>>
    THEN [called |-> TRUE, ok |-> FALSE, samples |-> <<>>]
    ELSE LET mono_samples == IF fmt.channels = 2
                             THEN StereoToMono(samples)
                             ELSE samples
             resampled == mono_samples
         IN  [called |-> TRUE, ok |-> TRUE, samples |-> Normalize(resampled)]

NoOutput == [called |-> FALSE, ok |-> FALSE, samples |-> <<>>]

PreInit ==
    /\ preFmt \in PreFormats
    /\ preIn = <<>>
    /\ preOut = NoOutput

PreIdle ==
    /\ preFmt = AudioFormat(WhisperSampleRate, 1, 16)
    /\ preIn = <<>>
    /\ preOut = NoOutput

\* preprocessor.process(x)
Pre_Process(x) ==
    /\ UNCHANGED notPre
    /\ preIn' = x
    /\ preOut' = Process(preFmt, Samples(x))
    /\ UNCHANGED preFmt

PreNext == \E x \in PreInputs : Pre_Process(x)

----------------------------------------------------------------------------
(* i16_to_f32 and f32_to_i16, computed bit for bit.  An f32 is the record   *)
(* [sign, n, s] standing for sign * n / 2^s, with a mantissa n of           *)
(* MantissaBits bits (n = 0 for zero); every operation rounds its exact     *)
(* result to the nearest such number, ties to the even mantissa, as IEEE    *)
(* 754 single precision does.  All intermediate integers stay below 2^31.   *)

\* i16::MIN
I16Min == -32768



\* the 16-bit samples
I16 == I16Min..I16Max

F32Zero == [sign |-> 1, n |-> 0, s |-> 0]

\* 1.0 and -1.0
F32One(sign) == [sign |-> sign, n |-> 2 ^ (MantissaBits - 1), s |-> MantissaBits - 1]

\* the number of doublings that bring a / i16::MAX into [1, 2)
RECURSIVE NormShift(_)
NormShift(a) == IF a >= I16Max THEN 0 ELSE 1 + NormShift(2 * a)

\* `bits` more bits of the quotient by i16::MAX, by long division
RECURSIVE DivBits(_, _, _)
DivBits(r, n, bits) ==
    IF bits = 0
    THEN [n |-> n, r |-> r]
    ELSE LET bit == IF 2 * r >= I16Max THEN 1 ELSE 0
         IN  DivBits(2 * r - bit * I16Max, 2 * n + bit, bits - 1)



\* s as f32 / i16::MAX as f32
I16ToF32(x) ==
    IF x = 0
    THEN F32Zero
    ELSE LET a == AbsVal(x)
             k == NormShift(a)
             lead == a * (2 ^ k)
             d == DivBits(lead - I16Max, 1, MantissaBits - 1)
         IN  [sign |-> IF x < 0 THEN -1 ELSE 1,
              n |-> d.n + RoundUp(d.n, 2 * d.r, I16Max),
              s |-> MantissaBits - 1 + k]

\* f32_to_i16 without the clamp
Clamp_None(f) == f

\* s.clamp(-1.0, 1.0): a magnitude above 1.0 needs s < MantissaBits
Clamp(f) == IF f.s < MantissaBits /\ f.n > 2 ^ f.s THEN F32One(f.sign) ELSE f

\* clamped * i16::MAX as f32: the exact product n * 32767 is formed in two
\* halves of 12 bits and rounded to MantissaBits bits
MulI16Max(f) ==
    IF f.n = 0
    THEN F32Zero
    ELSE LET hi == (f.n \div 4096) * I16Max
             lo == (f.n % 4096) * I16Max
             top == hi + (lo \div 4096)
             low == lo % 4096
             d == IF top < 2 ^ 26 THEN 14 ELSE IF top < 2 ^ 27 THEN 15 ELSE 16
             m == top \div (2 ^ (d - 12))
             rem == (top % (2 ^ (d - 12))) * 4096 + low
         IN  [sign |-> f.sign,
              n |-> m + RoundUp(m, 2 * rem, 2 ^ d),
              s |-> f.s - d]

\* `as i16`: the fraction is cut off (towards zero), the value saturates
AsI16(f) ==
    LET whole == f.n \div (2 ^ f.s)
        v == f.sign * whole
    IN  IF v > I16Max THEN I16Max ELSE IF v < I16Min THEN I16Min ELSE v

\* f32_to_i16 for one sample
F32ToI16(f) == AsI16(MulI16Max(Clamp(f)))

CvInit ==
    /\ cvPc = "i16"
    /\ cvIn \in I16
    /\ cvF32 = F32Zero
    /\ cvOut = 0

CvIdle ==
    /\ cvPc = "i16"
    /\ cvIn = 0
    /\ cvF32 = F32Zero
    /\ cvOut = 0

\* AudioPreprocessor::i16_to_f32(&[x])
Cv_ToF32 ==
    /\ UNCHANGED notCv
    /\ cvPc = "i16"
    /\ cvF32' = I16ToF32(cvIn)
    /\ cvPc' = "f32"
    /\ UNCHANGED <<cvIn, cvOut>>

\* AudioPreprocessor::f32_to_i16 of what i16_to_f32 returned
Cv_ToI16 ==
    /\ UNCHANGED notCv
    /\ cvPc = "f32"
    /\ cvOut' = F32ToI16(cvF32)
    /\ cvPc' = "done"
    /\ UNCHANGED <<cvIn, cvF32>>

CvNext ==
    \/ Cv_ToF32
    \/ Cv_ToI16

----------------------------------------------------------------------------
(* The specifications.                                                      *)

BufSpecInit ==
    /\ BufInit
    /\ ConcInit
    /\ VadIdle
    /\ DetIdle
    /\ SttIdle
    /\ PreIdle
    /\ CvIdle
    /\ EvInit

BufSpec == BufSpecInit /\ [][BufNext]_vars

ConcSpecInit ==
    /\ BufInit
    /\ ConcInit
    /\ VadIdle
    /\ DetIdle
    /\ SttIdle
    /\ PreIdle
    /\ CvIdle
    /\ EvInit

ConcSpec == ConcSpecInit /\ [][ConcNext]_vars

VadSpecInit ==
    /\ BufInit
    /\ ConcInit
    /\ VadInit
    /\ DetIdle
    /\ SttIdle
    /\ PreIdle
    /\ CvIdle
    /\ EvInit

VadSpec == VadSpecInit /\ [][VadNext]_vars

DetSpecInit ==
    /\ BufInit
    /\ ConcInit
    /\ DetVadInit
    /\ DetInit
    /\ SttIdle
    /\ PreIdle
    /\ CvIdle
    /\ EvInit

DetSpec == DetSpecInit /\ [][DetNext]_vars

DetFairSpec == DetSpecInit /\ [][DetNext]_vars /\ DetFairness

SttSpecInit ==
    /\ BufInit
    /\ ConcInit
    /\ VadIdle
    /\ DetIdle
    /\ SttInit
    /\ PreIdle
    /\ CvIdle
    /\ EvInit

SttSpec == SttSpecInit /\ [][SttNext]_vars

SttFairSpec == SttSpecInit /\ [][SttNext]_vars /\ SttFairness

PreSpecInit ==
    /\ BufInit
    /\ ConcInit
    /\ VadIdle
    /\ DetIdle
    /\ SttIdle
    /\ PreInit
    /\ CvIdle
    /\ EvInit

PreSpec == PreSpecInit /\ [][PreNext]_vars

CvSpecInit ==
    /\ BufInit
    /\ ConcInit
    /\ VadIdle
    /\ DetIdle
    /\ SttIdle
    /\ PreIdle
    /\ CvInit
    /\ EvInit

CvSpec == CvSpecInit /\ [][CvNext]_vars

EvSpecInit ==
    /\ BufInit
    /\ ConcInit
    /\ VadIdle
    /\ DetIdle
    /\ SttIdle
    /\ PreIdle
    /\ CvIdle
    /\ EvInit

EvSpec == EvSpecInit /\ [][EvNext]_vars

----------------------------------------------------------------------------
(* Claims about the AudioBuffer, checked under BufSpec.                     *)

\* the last `n` items of a sequence
LastN(s, n) == SubSeq(s, Len(s) - Min(n, Len(s)) + 1, Len(s))

\* strictly increasing: capture order, and no sample twice
Increasing(s) == \A i \in 1..(Len(s) - 1) : s[i] < s[i + 1]

\* the last call was write(s) with |s| <= capacity and |s| > vacant space
WrapWrite ==
    /\ lastOp.op = "write"
    /\ lastOp.count <= Capacity
    /\ lastOp.count > Capacity - Len(lastOp.before)

\* C1: a write of N samples, N <= capacity and N > vacant, discards exactly
\* the (N - vacant) oldest samples and stores all N new ones: the buffer then
\* holds the most recent `capacity` samples, oldest first, with no free
\* space, and peek(capacity) returns them.
C1_WrapKeepsMostRecent ==
    WrapWrite =>
        LET vacant == Capacity - Len(lastOp.before)
            dropped == lastOp.count - vacant
            all == lastOp.before \o lastOp.s
        IN  /\ rb = SubSeq(all, dropped + 1, Len(all))
            /\ rb = LastN(all, Capacity)
            /\ lastOp.num = lastOp.count
            /\ FreeSpace(rb) = 0
            /\ (lastQuery.op = "peek" /\ lastQuery.count >= Capacity
                    => lastQuery.out = LastN(all, Capacity))

\* C1 witness: a full buffer took a shorter-than-capacity write, then peek(capacity)
C1_Witness ==
    /\ WrapWrite
    /\ Len(lastOp.before) = Capacity
    /\ lastOp.count \in 1..(Capacity - 1)
    /\ lastQuery.op = "peek"
    /\ lastQuery.count = Capacity

\* C2: after write(s) with |s| > capacity the buffer holds exactly the last
\* `capacity` samples of s, in order, whatever it held before.
C2_OverlongWriteKeepsLast ==
    (lastOp.op = "write" /\ lastOp.count > Capacity)
        => rb = LastN(lastOp.s, Capacity)

\* C3: after any sequence of calls 0 <= len() <= capacity() and
\* len() + free_space() = capacity(), also as the calls report them.
C3_LenPlusFreeIsCapacity ==
    /\ 0 <= BufLen(rb)
    /\ BufLen(rb) <= BufCapacity
    /\ FreeSpace(rb) >= 0
    /\ BufLen(rb) + FreeSpace(rb) = BufCapacity
    /\ (lastQuery.op = "len" => lastQuery.num \in 0..BufCapacity)
    /\ (lastQuery.op = "free_space" => lastQuery.num \in 0..BufCapacity)

\* C3 witness: free_space() asked after a write longer than the capacity
C3_Witness ==
    /\ lastOp.op = "write"
    /\ lastOp.count > Capacity
    /\ Len(lastOp.before) > 0
    /\ lastQuery.op = "free_space"

\* C4: capture order is preserved: write(s) on an empty buffer (|s| <=
\* capacity) followed by peek(len()) returns s; and while nothing was lost
\* to overflow or clear(), the reads so far, concatenated, are a prefix of
\* the slices written so far, concatenated.
C4_CaptureOrder ==
    /\ (/\ lastOp.op = "write"
        /\ lastOp.before = <<>>
        /\ lastOp.count <= Capacity
        /\ lastQuery.op = "peek"
        /\ lastQuery.count = BufLen(rb))
            => lastQuery.out = lastOp.s
    /\ (lost = 0 =>
            /\ Len(readOut) <= tick
            /\ readOut = Fresh(0, Len(readOut)))

\* C4 witness: several reads, the last one of a single sample, nothing lost
C4_Witness ==
    /\ lost = 0
    /\ Len(readOut) >= 3
    /\ lastOp.op = "read"
    /\ lastOp.ok
    /\ lastOp.count = 1
    /\ rb # <<>>

----------------------------------------------------------------------------
(* Claims about the AudioBuffer under concurrency, checked under ConcSpec.  *)

\* a thread stands at a Mutex that is taken
WriterWaits ==
    \/ wpc = "lock_producer" /\ prodLock # "free"
    \/ wpc = "lock_consumer" /\ consLock # "free"

ReaderWaits ==
    /\ rpc = "lock"
    /\ IF ReaderMutex(rloc.op) = "producer" THEN prodLock # "free"
       ELSE consLock # "free"

\* C5: with one writer and one reader and no external locking, every
\* interleaving is safe: the two Mutexes never deadlock (the threads never
\* wait for each other, and none waits for a Mutex it holds), occupancy stays
\* within [0, capacity], and what the reader obtains is in capture order with
\* no sample returned twice.
C5_WriterReaderSafe ==
    /\ ~(WriterWaits /\ ReaderWaits)
    /\ ~(wpc = "lock_consumer" /\ consLock = "writer")
    /\ ~(wpc = "lock_producer" /\ prodLock = "writer")
    /\ ~(rpc = "lock" /\ "reader" \in {prodLock, consLock})
    /\ (prodLock = "writer" <=> wpc \in {"vacant", "lock_consumer", "skip", "push"})
    /\ (consLock = "writer" <=> wpc = "skip")
    /\ ("reader" \in {prodLock, consLock} <=> rpc \in {"observe", "take"})
    /\ Len(rb) \in 0..Capacity
    /\ Increasing(rb)
    /\ Increasing(readOut)
    /\ Increasing(rloc.out)
    /\ Increasing(readOut \o rb)
    /\ (rloc.op = "read" /\ rpc = "idle" /\ rloc.ok => Len(rloc.out) = rloc.count)

\* C5 witness: the reader took samples between the writer's vacant_len() and
\* its skip(), and the writer is now about to push after dropping
C5_Witness ==
    /\ wpc = "push"
    /\ wloc.to_drop > 0
    /\ wloc.available_space < VacantLen(rb) - wloc.to_drop
    /\ rpc = "take"
    /\ rloc.op = "read"
    /\ readOut # <<>>

----------------------------------------------------------------------------
(* Claims about the VoiceActivityDetector, checked under VadSpec.           *)

\* C6: on every frame the state machine moves as the transition table says,
\* and in no other way.
C6_TransitionTable ==
    (vadLast.called /\ vadLast.ok) =>
        LET pre == vadLast.pre
            speech == vadLast.is_speech
        IN  /\ (pre.state = "Silence" /\ speech) =>
                    /\ vad.state = "MaybeSpeech"
                    /\ vad.speech_frame_count = 1
            /\ (pre.state = "Silence" /\ ~speech) => vad = pre
            /\ (pre.state = "MaybeSpeech" /\ speech) =>
                    /\ vad.speech_frame_count = pre.speech_frame_count + 1
                    /\ vad.state =
                         IF vad.speech_frame_count >= vadCfg.speech_frames_required
                         THEN "Speech" ELSE "MaybeSpeech"
            /\ (pre.state = "MaybeSpeech" /\ ~speech) =>
                    /\ vad.state = "Silence"
                    /\ vad.speech_frame_count = 0
                    /\ vad.silence_frame_count = 0
            /\ (pre.state = "Speech" /\ ~speech) =>
                    /\ vad.state = "MaybeSilence"
                    /\ vad.silence_frame_count = 1
            /\ (pre.state = "Speech" /\ speech) =>
                    /\ vad.state = "Speech"
                    /\ vad.silence_frame_count = 0
            /\ (pre.state = "MaybeSilence" /\ speech) => vad.state = "Speech"
            /\ (pre.state = "MaybeSilence" /\ ~speech) =>
                    /\ vad.silence_frame_count = pre.silence_frame_count + 1
                    /\ vad.state =
                         IF vad.silence_frame_count >= vadCfg.silence_frames_required
                         THEN "Silence" ELSE "MaybeSilence"

\* C6 witness: the end of the trajectory speech, speech, silence, silence
\* with (speech_required, silence_required) = (2, 2)
C6_Witness ==
    /\ vadCfg.speech_frames_required = 2
    /\ vadCfg.silence_frames_required = 2
    /\ vadLast.called
    /\ vadLast.ok
    /\ ~vadLast.is_speech
    /\ vadLast.pre.state = "MaybeSilence"
    /\ vadLast.pre.silence_frame_count = 1
    /\ vad.state = "Silence"

\* C7: for every VadConfig, after speech_frames_required consecutive
\* speech-classified frames starting from Silence the state is Speech.
C7_SpeechConfirmed ==
    (spRun >= 1 /\ spRun = vadCfg.speech_frames_required) => vad.state = "Speech"

\* C8: for every VadConfig, after silence_frames_required consecutive
\* silence-classified frames starting from Speech the state is Silence.
C8_SilenceConfirmed ==
    (siRun >= 1 /\ siRun = vadCfg.silence_frames_required) => vad.state = "Silence"

----------------------------------------------------------------------------
(* Claims about the WakeWordDetector, checked under DetSpec / DetFairSpec.  *)

\* inside process_audio mock_porcupine_process never answers Some: its
\* state.try_read() fails under the caller's write guard.  So no frame
\* triggers, nothing is sent through event_tx and wake_words_detected stays 0
NoTriggerUnderWriteGuard ==
    /\ triggers = 0
    /\ events = <<>>
    /\ det.wake_words_detected = 0
    /\ dcall["worker"] # "detect"

\* the worker waits for the detector's state lock while it holds that lock
\* itself (such a wait can never end)
AwaitsOwnLock ==
    /\ dpc["worker"] \in {"await_read", "await_write"}
    /\ stateLock.writer = "worker"

\* how far the worker is from the return of its process_audio call: the
\* samples still on the ring count most, then the place inside the turn of
\* the frame loop
StepsToReturn ==
    LET pc == dpc["worker"]
    IN  CASE pc = "idle" -> 0
          [] pc = "await_write" /\ dcall["worker"] = "process_audio" ->
                6 * BufCapacity + 6
          [] pc = "loop" -> 6 * BufLen(rb) + 5
          [] pc = "classify" -> 6 * BufLen(rb) + 4
          [] pc = "await_read" -> 6 * BufLen(rb) + 3
          [] pc = "await_write" -> 6 * BufLen(rb) + 2
          [] pc = "consume" -> 6 * BufLen(rb) + 1

\* a step of the worker inside process_audio
WorkerMoves ==
    /\ dpc["worker"] # "idle"
    /\ (dpc'["worker"] # dpc["worker"] \/ (dpc["worker"] = "loop" /\ rb' # rb))

\* a call of process_audio gets back to its caller (under DetFairSpec)
WorkerReturns == (dpc["worker"] # "idle") ~> (dpc["worker"] = "idle")

\* C10: process_audio always returns: inside a call the worker never waits
\* for the detector's state lock while it holds that lock itself, it can
\* always take its next step (a lock it waits for is free, the other tasks
\* holding it within one step only), and every step it takes, whatever the
\* samples and whatever the classifier answers for them, brings it nearer to
\* the return.
C10_ProcessAudioReturns ==
    /\ [](~AwaitsOwnLock /\ (dpc["worker"] # "idle" => ENABLED WorkerStep))
    /\ [][WorkerMoves => StepsToReturn' < StepsToReturn]_vars

C10_Witness ==
    /\ dpc["worker"] = "idle"
    /\ dlast = "unreadable"
    /\ det.is_running
    /\ det.frames_processed = 1
    /\ BufLen(rb) < vadCfg.frame_size
    /\ stateLock = LockFree

\* a step of the frame loop that examined a frame: from the loop head the
\* worker either went on to the classifier or consumed the frame at once
FrameExamined ==
    /\ dpc["worker"] = "loop"
    /\ (dpc'["worker"] = "classify" \/ rb' # rb)

\* C11: with enable_vad_prefilter true the classifier is invoked on a frame
\* exactly when the VAD reports speech active after processing that frame
\* (state Speech or MaybeSilence), and a frame the VAD reports as non-speech
\* is consumed without the classifier; with the pre-filter disabled the
\* classifier is invoked on every frame.
C11_PrefilterGatesClassifier ==
    [][FrameExamined =>
         IF detCfg.enable_vad_prefilter
         THEN /\ (dpc'["worker"] = "classify")
                    <=> (vad'.state \in {"Speech", "MaybeSilence"})
              /\ (dpc'["worker"] # "classify")
                    => (BufLen(rb') = BufLen(rb) - vadCfg.frame_size /\ det' = det)
         ELSE dpc'["worker"] = "classify" /\ vad' = vad]_vars

C11_Witness ==
    /\ detCfg.enable_vad_prefilter
    /\ dpc["worker"] = "classify"
    /\ vad.state = "Speech"
    /\ heard

\* C12: with the VAD pre-filter enabled, a detector that has been fed only
\* zero samples (any length, any chunking) has its VAD in Silence, has never
\* invoked the classifier, has published no WakeWordEvent
\* (wake_words_detected == 0) and has frames_processed == 0 (so below 100):
\* the frames the VAD rejects are consumed without being counted.
C12_SilenceNeverClassified ==
    (detCfg.enable_vad_prefilter /\ ~heard) =>
        /\ vad.state = "Silence"
        /\ dlast # "passed"
        /\ dpc["worker"] \notin {"classify", "consume", "await_read"}
        /\ triggers = 0
        /\ events = <<>>
        /\ det.wake_words_detected = 0
        /\ det.frames_processed = 0

C12_Witness ==
    /\ detCfg.enable_vad_prefilter
    /\ ~heard
    /\ det.is_running
    /\ dlast = "skipped"
    /\ dpc["worker"] = "idle"

\* C13: the detector's state lock is never held while the wake-word
\* classifier runs (process_audio releases it before invoking the classifier).
C13_LockFreeWhileClassifying ==
    dpc["worker"] = "classify" => stateLock.writer = "none"

----------------------------------------------------------------------------
(* Claims about StreamingSTT, checked under SttSpec / SttFairSpec.          *)

\* every event sent to the output channel so far, in the order of sending
Emitted == received \o outQ

IsWindowEvent(e) == e.type # "EndOfSpeech"

\* the events that report a window (Partial, Final, Error)
WindowEvents == SelectSeq(Emitted, IsWindowEvent)

IsPartial(e) == e.type = "Partial"

\* one session, started once and then left alone, in which every window was
\* transcribed and nothing was drained by the buffer cap; the pump is
\* between two pushes
UndisturbedSession ==
    /\ ppc = "recv"
    /\ stt.is_active
    /\ ~sttHist.disturbed
    /\ ~sttHist.asr_failed
    /\ sttHist.dropped = 0
    /\ ~rxDropped
    /\ OverlapSamples(sttCfg) < ChunkSamples(sttCfg)

\* C14: T >= chunk_samples samples fed to an active session, however they
\* are split across pushes, produce
\* floor((T - chunk_samples) / (chunk_samples - overlap_samples)) + 1
\* windows and as many Partial events.
C14_WindowsPerAudio ==
    LET T == stt.total_samples_processed
        expected == ((T - ChunkSamples(sttCfg))
                        \div (ChunkSamples(sttCfg) - OverlapSamples(sttCfg))) + 1
    IN  (/\ UndisturbedSession
         /\ inQ = <<>>
         /\ sttCfg.enable_partial_results
         /\ T >= ChunkSamples(sttCfg))
            => /\ stt.chunks_processed = expected
               /\ Len(SelectSeq(Emitted, IsPartial)) = expected

\* C15: between pushes, (chunk_samples - overlap_samples) times the number
\* of window events emitted equals total_samples_processed minus the
\* remainder still queued, and the remainder is below chunk_samples.
C15_StepsAccountForSamples ==
    UndisturbedSession =>
        /\ Len(WindowEvents) * (ChunkSamples(sttCfg) - OverlapSamples(sttCfg))
              = stt.total_samples_processed - stt.audio_buffer.len
        /\ stt.audio_buffer.len < ChunkSamples(sttCfg)

\* C16: after every push the accumulation queue holds at most
\* max_buffer_duration_secs x 16000 samples; what the cap removes are the
\* oldest samples (the queue still ends with the newest sample accepted),
\* and the step that drains them sends no event.
C16_QueueCapped ==
    [][/\ stt'.audio_buffer.len <= MaxSamples(sttCfg)
       /\ stt'.audio_buffer.first + stt'.audio_buffer.len = sttHist'.fed + 1
       /\ (sttHist'.dropped > sttHist.dropped)
             => (outQ' = outQ /\ received' = received)]_vars

C16_Witness ==
    /\ sttHist.dropped > 0
    /\ MaxSamples(sttCfg) > 0
    /\ stt.audio_buffer.len > 0
    /\ stt.audio_buffer.len + ChunkSamples(sttCfg) - OverlapSamples(sttCfg)
          = MaxSamples(sttCfg)

\* C17: the events of a session come out in the order their windows were
\* taken, and every window taken from the queue yields exactly one event
\* (Partial or Final on success whatever the confidence, Error on failure):
\* the i-th window event reports the i-th window, and once the pump is past
\* sending, there are as many window events as windows.
C17_EventPerWindowInOrder ==
    ~rxDropped =>
        /\ Len(WindowEvents) <= Len(sttHist.windows)
        /\ \A i \in 1..Len(WindowEvents) :
              WindowEvents[i].window = sttHist.windows[i]
        /\ \A i \in 1..(Len(sttHist.windows) - 1) :
              sttHist.windows[i] <= sttHist.windows[i + 1]
        /\ (ppc \in {"recv", "lock", "eos", "done"})
              => Len(WindowEvents) = Len(sttHist.windows)

C17_Witness ==
    /\ ~rxDropped
    /\ Len(outQ) = 2
    /\ Len(WindowEvents) = 2
    /\ WindowEvents[1].type # "Error"
    /\ WindowEvents[1].confidence = "low"
    /\ WindowEvents[2].type = "Error"

\* C18: a failure of the ASR callable does not tear the session down: while
\* the input channel is open (and the consumer listens) the pump goes on
\* taking audio from it.
C18_ErrorKeepsSession ==
    (sttHist.asr_failed /\ ~inClosed /\ ~rxDropped)
        => ppc \notin {"eos", "done"}

\* C19: once stop() has set is_active to false, the result of an ASR call
\* that was in flight is discarded: it is neither returned as an event nor
\* written to last_transcription.
C19_NoEventAfterStop ==
    [][(ppc \in {"transcribe", "store"} /\ ~stt.is_active /\ ppc' # ppc)
          => /\ ppc' \notin {"store", "send"}
             /\ stt'.last_transcription = stt.last_transcription]_vars

EndsWithOneEndOfSpeech ==
    /\ Emitted # <<>>
    /\ Emitted[Len(Emitted)].type = "EndOfSpeech"
    /\ \A i \in 1..(Len(Emitted) - 1) : Emitted[i].type # "EndOfSpeech"

\* C20: when the input channel closes, the pump eventually emits exactly one
\* EndOfSpeech, as the last event of the stream, and closes the output
\* channel, provided the consumer keeps draining the output (unless the
\* consumer drops the receiver).
C20_InputCloseEndsStream ==
    inClosed ~> (rxDropped \/ (ppc = "done" /\ outClosed /\ EndsWithOneEndOfSpeech))

C20_Witness ==
    /\ inClosed
    /\ ~rxDropped
    /\ ppc = "done"
    /\ outClosed
    /\ EndsWithOneEndOfSpeech
    /\ Len(received) >= 2
    /\ outQ = <<>>

----------------------------------------------------------------------------
(* More claims about the AudioBuffer, checked under BufSpec.                *)

\* C25: peek(n) returns the min(n, occupied) oldest samples, oldest first,
\* and leaves the contents, len() and free_space() as they were.
C25_PeekObservesOldest ==
    lastQuery.op = "peek" =>
        /\ lastQuery.out
             = SubSeq(lastQuery.before, 1, Min(lastQuery.count, Len(lastQuery.before)))
        /\ Increasing(lastQuery.out)
        /\ rb = lastQuery.before
        /\ BufLen(rb) = Len(lastQuery.before)
        /\ FreeSpace(rb) = Capacity - Len(lastQuery.before)

C25_Witness ==
    /\ lastQuery.op = "peek"
    /\ lastQuery.count >= 2
    /\ lastQuery.count < Len(lastQuery.before)
    /\ lastOp.op = "write"
    /\ lost > 0

\* C26: read(n) with n > occupied fails with Underflow(n, occupied) and
\* removes nothing; with n <= occupied it returns exactly the n oldest
\* samples in order and reduces len() by n.
C26_ReadTakesOldestOrFails ==
    lastOp.op = "read" =>
        IF lastOp.count > Len(lastOp.before)
        THEN /\ ~lastOp.ok
             /\ lastOp.num = Len(lastOp.before)
             /\ lastOp.out = <<>>
             /\ rb = lastOp.before
        ELSE /\ lastOp.ok
             /\ lastOp.out = SubSeq(lastOp.before, 1, lastOp.count)
             /\ rb = SubSeq(lastOp.before, lastOp.count + 1, Len(lastOp.before))
             /\ BufLen(rb) = Len(lastOp.before) - lastOp.count

C26_Witness ==
    /\ lastOp.op = "read"
    /\ ~lastOp.ok
    /\ Len(lastOp.before) >= 2
    /\ rb = lastOp.before

\* C27: write(samples) returns samples.len() for every input, an input
\* longer than the capacity included, and afterwards
\* len() == min(occupied_before + samples.len(), capacity).
C27_WriteReturnsInputLength ==
    lastOp.op = "write" =>
        /\ lastOp.num = Len(lastOp.s)
        /\ BufLen(rb) = Min(Len(lastOp.before) + Len(lastOp.s), Capacity)

----------------------------------------------------------------------------
(* More claims about the VoiceActivityDetector, checked under VadSpec.      *)

\* C28: process_frame on fewer than frame_size samples (and only then) fails
\* with InsufficientData(frame_size) and leaves the VAD state and both
\* counters unchanged.
C28_ShortFrameRejected ==
    vadLast.called =>
        /\ (vadLast.len < vadCfg.frame_size) <=> ~vadLast.ok
        /\ ~vadLast.ok => (vadLast.err = vadCfg.frame_size /\ vad = vadLast.pre)

C28_Witness ==
    /\ vadLast.called
    /\ ~vadLast.ok
    /\ vadLast.len >= 1
    /\ vadLast.pre.state = "MaybeSpeech"
    /\ vadLast.pre.speech_frame_count >= 1

----------------------------------------------------------------------------
(* More claims about the WakeWordDetector, checked under DetSpec /          *)
(* DetFairSpec.                                                             *)

\* the step in which reset() runs: its write lock is granted
ResetRuns ==
    /\ dcall["control"] = "reset"
    /\ dpc["control"] = "await_write"
    /\ dpc'["control"] = "idle"

\* C29: reset(), from any reachable state, empties the ring buffer, returns
\* the VAD to Silence with both counters zero and zeroes frames_processed and
\* wake_words_detected, while leaving is_running unchanged.
C29_ResetClearsAllButRunning ==
    [][ResetRuns =>
         /\ rb' = <<>>
         /\ vad'.state = "Silence"
         /\ vad'.speech_frame_count = 0
         /\ vad'.silence_frame_count = 0
         /\ det'.frames_processed = 0
         /\ det'.wake_words_detected = 0
         /\ det'.is_running = det.is_running]_vars

C29_Witness ==
    /\ resetFrom.dirty
    /\ dpc["control"] = "idle"
    /\ rb = <<>>
    /\ vad = NewVad
    /\ det.frames_processed = 0
    /\ det.is_running

\* C21: the output channel never holds more than max_queue_size events;
\* while it is full and the consumer listens, the pump stays where it is
\* with the event in hand (it takes no input, drops nothing and turns to no
\* error path) until the consumer has taken an event, and the event it was
\* holding is then queued unchanged.
C21_SaturationWaits ==
    [][/\ Len(outQ') <= sttCfg.max_queue_size
       /\ (/\ ppc \in {"send", "send_err", "eos"}
           /\ ~rxDropped
           /\ Len(outQ) = sttCfg.max_queue_size)
             => /\ ppc' = ppc
                /\ ploc' = ploc
                /\ Len(inQ') >= Len(inQ)
                /\ stt'.total_samples_processed \in {0, stt.total_samples_processed}
                /\ outQ' # outQ
                      => \/ rxDropped'
                         \/ (outQ' = Tail(outQ)
                               /\ received' = Append(received, Head(outQ)))
       /\ (ppc = "send" /\ ppc' = "recv" /\ ~rxDropped)
             => outQ' = Append(outQ, ploc.event[1])]_vars

C21_Witness ==
    /\ ppc = "send"
    /\ ~rxDropped
    /\ outQ # <<>>
    /\ Len(outQ) = sttCfg.max_queue_size
    /\ ploc.event[1].type # "Error"

\* the time an event carries: timestamp_ms of a Partial, start_ms of a Final
EventTime(e) == IF e.type = "Partial" THEN e.timestamp_ms ELSE e.start_ms

IsResultEvent(e) == e.type \in {"Partial", "Final"}

\* C22: a window transcribed with success yields exactly one event with the
\* text and the confidence of the result; it is a Partial stamped
\* chunk_samples * 1000 / 16000 when enable_partial_results is set and
\* otherwise a Final from 0 to chunk_samples * 1000 / 16000;
\* last_transcription becomes the text of the result; the times of the
\* events sent are non-decreasing.
C22_EventFromResult ==
    [][/\ (ppc = "store" /\ ppc' = "send")
             => /\ ploc' = ploc
                /\ stt'.last_transcription = ploc.result[1].text
       /\ (ppc = "transcribe" /\ ppc' = "store")
             => LET e == ploc'.event[1]
                    result == ploc'.result[1]
                    duration == (ChunkSamples(sttCfg) * MsPerSec) \div SamplesPerSec
                IN  /\ Len(ploc'.event) = 1
                    /\ Len(ploc'.result) = 1
                    /\ result.text = ploc.window
                    /\ e.text = result.text
                    /\ e.confidence = result.confidence
                    /\ IF sttCfg.enable_partial_results
                       THEN e.type = "Partial" /\ e.timestamp_ms = duration
                       ELSE /\ e.type = "Final"
                            /\ e.start_ms = 0
                            /\ e.end_ms = duration
                    /\ stt' = stt
       /\ LET sent == SelectSeq(received' \o outQ', IsResultEvent)
          IN  \A i \in 1..(Len(sent) - 1) :
                 EventTime(sent[i]) <= EventTime(sent[i + 1])]_vars

C22_Witness ==
    /\ ~rxDropped
    /\ Len(received) = 2
    /\ received[1].type = "Partial"
    /\ received[1].timestamp_ms = 2
    /\ received[2].type = "Partial"
    /\ received[2].confidence = "high"
    /\ stt.last_transcription = received[2].text
    /\ received[2].text > received[1].text

\* C23: a push on a session that is not active, or of an empty vector,
\* returns no event and leaves the accumulation queue,
\* total_samples_processed, chunks_processed and last_transcription as they
\* were.
C23_IgnoredPushChangesNothing ==
    [][(/\ ppc = "lock"
        /\ ppc' # "lock"
        /\ (~stt.is_active \/ ploc.audio = 0))
          => /\ stt' = stt
             /\ ppc' = "recv"
             /\ ploc' = NoLocals
             /\ outQ' = outQ]_vars

C23_Witness ==
    /\ sttHist.early = "empty"
    /\ ppc = "recv"
    /\ stt.is_active
    /\ stt.audio_buffer.len >= ChunkSamples(sttCfg)
    /\ OverlapSamples(sttCfg) < ChunkSamples(sttCfg)

C23_WitnessInactive ==
    /\ sttHist.early = "inactive"
    /\ sttHist.fed > 0
    /\ ~stt.is_active
    /\ inQ = <<>>


----------------------------------------------------------------------------
(* Claims about the AudioPreprocessor, checked under PreSpec.               *)

\* C30: for every non-silent input x, the output of process(x) has a peak
\* of at most 0.95.
C30_OutputPeakWithinHeadroom ==
    (preOut.called /\ preOut.ok /\ Peak(Samples(preIn)).m # <<>>)
        => ~FloatGreater(Peak(preOut.samples), DecimalLiteral(MantissaBits, Headroom))


\* C31: converting a 16-bit sample to float and back changes it by at most
\* one: |f32_to_i16(i16_to_f32(x)) - x| <= 1, and i16::MIN comes back as
\* -32767.
C31_RoundTripWithinOneLsb ==
    cvPc = "done"
        => /\ AbsVal(cvOut - cvIn) <= 1
           /\ cvIn = I16Min => cvOut = 0 - I16Max

C31_Witness ==
    /\ cvPc = "done"
    /\ cvIn = I16Min
    /\ cvF32.n > 2 ^ cvF32.s
    /\ cvOut = 0 - I16Max


----------------------------------------------------------------------------
(* Claims about the detector's event channel, checked under EvSpec.         *)

\* C32: try_recv_event does not block: a task that has called it can take
\* its step at once, even while another task waits inside recv_event on an
\* empty queue.
C32_TryRecvNeverBlocked ==
    \A t \in Consumers :
        (epc[t] = "lock" /\ ecall[t] = "try_recv_event")
            => ~(\E w \in Consumers \ {t} :
                    epc[w] = "recv" /\ rxLock = w /\ events = <<>>)


----------------------------------------------------------------------------
(* Further claims about the AudioBuffer, checked under BufSpec.             *)

\* C33: after the buffer has been filled and some more samples, fewer than
\* its capacity, are written (5 into a full buffer of capacity 10), len()
\* stays at the capacity and peek(capacity) starts with the newer data: its
\* first element is one of the samples just written.
C33_PeekStartsWithNewData ==
    (/\ lastOp.op = "write"
     /\ Len(lastOp.before) = Capacity
     /\ lastOp.count \in 1..(Capacity - 1)
     /\ lastQuery.op = "peek"
     /\ lastQuery.count = Capacity)
        => /\ BufLen(rb) = Capacity
           /\ lastQuery.out # <<>>
           /\ \E i \in 1..Len(lastOp.s) : lastQuery.out[1] = lastOp.s[i]


----------------------------------------------------------------------------
(* Further claims about the VAD, checked under VadSpec.                     *)

\* C34: is_speech_active() does not become true before
\* speech_frames_required consecutive speech frames have been seen since
\* Silence, and a silence frame during MaybeSpeech takes the VAD back to
\* Silence with the count of confirming frames at zero.
C34_NoSpeechBeforeConfirmation ==
    (vadLast.called /\ vadLast.ok)
        => /\ (~IsSpeechActive(vadLast.pre) /\ IsSpeechActive(vad))
                 => /\ vadLast.pre.state = "MaybeSpeech"
                    /\ vadLast.is_speech
                    /\ spRun >= vadCfg.speech_frames_required
           /\ (vadLast.pre.state = "MaybeSpeech" /\ ~vadLast.is_speech)
                 => /\ vad.state = "Silence"
                    /\ vad.speech_frame_count = 0
                    /\ spRun = 0
           /\ vadLast.ret = IsSpeechActive(vad)

C34_Witness ==
    /\ vadLast.called
    /\ vadLast.ok
    /\ vadCfg.speech_frames_required = MaxRequired
    /\ vadLast.pre.state = "MaybeSpeech"
    /\ vad.state = "Speech"
    /\ spRun = MaxRequired

C34_WitnessFalseAlarm ==
    /\ vadLast.called
    /\ vadLast.ok
    /\ vadLast.pre.state = "MaybeSpeech"
    /\ vadLast.pre.speech_frame_count = 2
    /\ ~vadLast.is_speech
    /\ vad.state = "Silence"

\* C38: in every reachable state the counters agree with the state:
\* MaybeSpeech has speech_frame_count >= 1 and silence_frame_count = 0,
\* Speech has silence_frame_count = 0, MaybeSilence has
\* silence_frame_count >= 1 and speech_frame_count = 0.
C38_CountersAgreeWithState ==
    /\ vad.state = "MaybeSpeech"
          => (vad.speech_frame_count >= 1 /\ vad.silence_frame_count = 0)
    /\ vad.state = "Speech" => vad.silence_frame_count = 0
    /\ vad.state = "MaybeSilence"
          => (vad.silence_frame_count >= 1 /\ vad.speech_frame_count = 0)

C38_Witness ==
    /\ vad.state = "Speech"
    /\ vadLast.called
    /\ vadLast.pre.state = "MaybeSilence"
    /\ vadLast.pre.silence_frame_count = 2
    /\ vad.silence_frame_count = 0


----------------------------------------------------------------------------
(* Further claims about the WakeWordDetector, checked under DetSpec.        *)

\* C36: a process_audio call that returns on a running detector leaves fewer
\* than frame_size samples on the ring; and as long as no call carries more
\* than capacity - frame_size + 1 samples nothing is dropped: the ring holds
\* exactly the samples accepted and not yet examined, each write appends
\* behind them, each frame examined is the frame_size oldest samples, and
\* consuming it removes just those.
C36_FramesAreConsecutiveSlices ==
    [][/\ (dpc["worker"] = "loop" /\ dpc'["worker"] = "idle")
            => BufLen(rb') < vadCfg.frame_size
       /\ ~dflow'.oversize
            => /\ dflow'.pending = BufLen(rb')
               /\ (dpc["worker"] = "await_write" /\ dpc'["worker"] = "loop")
                     => /\ BufLen(rb) < vadCfg.frame_size
                        /\ Len(rb') = Len(rb) + (dflow'.pending - dflow.pending)
                        /\ SubSeq(rb', 1, Len(rb)) = rb
               /\ (dpc["worker"] = "loop" /\ dpc'["worker"] = "classify")
                     => (frame' = SubSeq(rb, 1, vadCfg.frame_size) /\ rb' = rb)
               /\ (dpc["worker"] = "loop" /\ dpc'["worker"] = "loop" /\ rb' # rb)
                     => rb' = SubSeq(rb, vadCfg.frame_size + 1, Len(rb))
               /\ (dpc["worker"] = "consume" /\ dpc'["worker"] = "loop")
                     => (frame = SubSeq(rb, 1, vadCfg.frame_size)
                           /\ rb' = SubSeq(rb, vadCfg.frame_size + 1, Len(rb)))]_vars

C36_Witness ==
    /\ ~dflow.oversize
    /\ dpc["worker"] = "idle"
    /\ det.is_running
    /\ det.frames_processed = 2
    /\ BufLen(rb) = vadCfg.frame_size - 1
    /\ dflow.pending = BufLen(rb)
    /\ dlast = "passed"


\* C37: while the detector is not running, process_audio is a no-op: once
\* it has the lock it returns without writing to the ring, advancing the
\* VAD, changing a counter or publishing an event, whatever samples it was
\* given.
C37_NotRunningIsNoOp ==
    [][(/\ dpc["worker"] = "await_write"
        /\ dcall["worker"] = "process_audio"
        /\ ~det.is_running
        /\ dpc'["worker"] # "await_write")
          => /\ dpc'["worker"] = "idle"
             /\ rb' = rb
             /\ vad' = vad
             /\ det' = det
             /\ events' = events
             /\ triggers' = triggers
             /\ stateLock' = stateLock]_vars

C37_Witness ==
    /\ dlast = "ignored"
    /\ dpc["worker"] = "idle"
    /\ ~det.is_running
    /\ det.frames_processed > 0
    /\ BufLen(rb) > 0
    /\ vad.state # "Silence"


----------------------------------------------------------------------------
(* Further claims about StreamingSTT, checked under SttSpec.                *)

\* C39: for every StreamingConfig, overlap_ms >= chunk_duration_ms included,
\* each window taken from the accumulation queue removes
\* chunk_samples - overlap_samples > 0 samples from it, so that no two
\* windows start at the same sample: every window starts after the one
\* before.
C39_WindowsAdvance ==
    \A i \in 1..(Len(sttHist.windows) - 1) :
        sttHist.windows[i] < sttHist.windows[i + 1]


\* C40: after start() the session is fresh, and last_transcription stays
\* empty until a window of the new session has been transcribed: while the
\* session is active and none of its windows has been taken yet
\* (chunks_processed = 0), last_transcription is empty, so the result of an
\* ASR call begun before start() is not written into the new session.
C40_FreshSessionStaysClean ==
    (stt.is_active /\ stt.chunks_processed = 0) => stt.last_transcription = 0

====
